---- MODULE Spec2Model ----
(***************************************************************************)
(* Model of the whiteboard canvas engine of cvaz1306/nexora:               *)
(*   - Whiteboard.svelte (the version with connections; in this tree it is *)
(*     src/unnamed/part_003): viewport, pointer-driven interaction state   *)
(*     machine, snapping, node and connection stores;                      *)
(*   - src/src/lib/whiteboardController.ts: the command layer's operations *)
(*   - src/src/routes/+page.svelte: the initial board and the glue that    *)
(*     turns the addConnection event into controller.connectNodes.         *)
(*                                                                         *)
(* JavaScript numbers are modelled as exact rationals <<n, d>> (d > 0, in  *)
(* lowest terms); floating-point rounding is not modelled.  Node ids are   *)
(* integers (1..4 are the four nodes of +page.svelte, 5.. are the values   *)
(* of crypto.randomUUID()), 0 stands for null.  An optional record         *)
(* (draggingConnection) is a sequence of length 0 (null) or 1.             *)
(***************************************************************************)
EXTENDS Integers, Sequences, FiniteSets, TLC

(***************************************************************************)
(* Numbers                                                                 *)
(***************************************************************************)
Abs(i) == IF i < 0 THEN -i ELSE i

RECURSIVE Gcd(_, _)
Gcd(a, b) == IF b = 0 THEN a ELSE Gcd(b, a % b)

\* NaN, the one value of a number that is no number; every operation on it
\* gives NaN and every comparison with it is false
NaN == <<0, 0>>

isNaN(a) == a[2] = 0

\* the number n/d in lowest terms with a positive denominator
Num(n, d) ==
    IF d = 0 THEN NaN
    ELSE LET s == IF d < 0 THEN -1 ELSE 1
             g == Gcd(Abs(n), Abs(d))
         IN  <<(s * n) \div g, (s * d) \div g>>

Whole(i) == <<i, 1>>

Add(a, b) == Num(a[1] * b[2] + b[1] * a[2], a[2] * b[2])
Sub(a, b) == Num(a[1] * b[2] - b[1] * a[2], a[2] * b[2])
Mul(a, b) == Num(a[1] * b[1], a[2] * b[2])
Div(a, b) == Num(a[1] * b[2], a[2] * b[1])
Lt(a, b) == a[1] * b[2] < b[1] * a[2]
Le(a, b) == ~isNaN(a) /\ ~isNaN(b) /\ a[1] * b[2] <= b[1] * a[2]
Ge(a, b) == Le(b, a)
MathAbs(a) == <<Abs(a[1]), a[2]>>
MathMax(a, b) == IF isNaN(a) \/ isNaN(b) THEN NaN ELSE IF Lt(a, b) THEN b ELSE a
MathMin(a, b) == IF isNaN(a) \/ isNaN(b) THEN NaN ELSE IF Lt(b, a) THEN b ELSE a
MathFloor(a) == IF isNaN(a) THEN NaN ELSE Whole(a[1] \div a[2])
MathMin4(a, b, c, d) == MathMin(MathMin(a, b), MathMin(c, d))
MathMax4(a, b, c, d) == MathMax(MathMax(a, b), MathMax(c, d))
Half(a) == Div(a, Whole(2))

(***************************************************************************)
(* Program constants                                                       *)
(***************************************************************************)
DEFAULT_NODE_WIDTH == 200
DEFAULT_NODE_HEIGHT == 150
MIN_NODE_WIDTH == 30
MIN_NODE_HEIGHT == 30
SNAP_THRESHOLD_STAGE == 8
CONNECTOR_HANDLE_OFFSET == 20
minZoom == Num(1, 10)
maxZoom == Whole(5)
\* variant: half the sensitivity
zoomSensitivity_Halved == Num(1, 1000)
zoomSensitivity == Num(2, 1000)
MaxImageWidth == 600
MaxImageHeight == 500

resizeHandles == {"tl", "t", "tr", "l", "r", "bl", "b", "br"}
connectorHandles == {"top", "right", "bottom", "left"}

\* handle.includes(c) for a resize handle name
Includes(handle, c) ==
    CASE c = "l" -> handle \in {"tl", "l", "bl"}
      [] c = "r" -> handle \in {"tr", "r", "br"}
      [] c = "t" -> handle \in {"tl", "t", "tr"}
      [] c = "b" -> handle \in {"bl", "b", "br"}

NoNode == 0

(***************************************************************************)
(* State                                                                   *)
(***************************************************************************)
VARIABLES
    nodes,               \* +page.svelte `nodes`, bound to Whiteboard `nodes`
    connections,         \* +page.svelte `connections`, bound to Whiteboard
    showConnections,
    containerElement,    \* TRUE once the container element is bound
    panX, panY, zoom,
    isPanning, startPanX, startPanY,
    isDraggingNode, draggedNodeId, dragStartX, dragStartY,
    nodeStartDragX, nodeStartDragY,
    isResizingNode, resizingNodeId, activeResizeHandle,
    resizeStartMouseX, resizeStartMouseY,
    nodeInitialX, nodeInitialY, nodeInitialWidth, nodeInitialHeight,
    selectedNodeId,
    activeSnapLines,
    draggingConnection,
    pendingImages,       \* image loads started by addImageNode, not yet settled
    nextUuid,            \* the next value crypto.randomUUID() returns
    threw,               \* history: the handler run last ended in a thrown error
    requests,            \* history: the addConnection events dispatched so far
    nEvents              \* history: number of events and calls handled

storeVars == <<nodes, connections, showConnections, pendingImages, nextUuid>>
viewVars == <<panX, panY, zoom>>
panVars == <<isPanning, startPanX, startPanY>>
dragVars == <<isDraggingNode, draggedNodeId, dragStartX, dragStartY,
              nodeStartDragX, nodeStartDragY>>
resizeVars == <<isResizingNode, resizingNodeId, activeResizeHandle,
                resizeStartMouseX, resizeStartMouseY,
                nodeInitialX, nodeInitialY, nodeInitialWidth, nodeInitialHeight>>
vars == <<storeVars, containerElement, viewVars, panVars, dragVars, resizeVars,
          selectedNodeId, activeSnapLines, draggingConnection, threw, requests,
          nEvents>>

\* the size of the container element, in pixels
clientWidth == 800
clientHeight == 600

NodeIds(ns) == {ns[i].id : i \in 1..Len(ns)}

\* nodes.find(n => n.id === id): the index of the first such node, 0 if none
FindNode(ns, id) ==
    IF \E i \in 1..Len(ns) : ns[i].id = id
    THEN CHOOSE i \in 1..Len(ns) :
            ns[i].id = id /\ \A j \in 1..(i - 1) : ns[j].id # id
    ELSE 0

MkNode(id, kind, x, y, w, h, showId) ==
    [id |-> id, kind |-> kind, x |-> x, y |-> y, width |-> w, height |-> h,
     showId |-> showId]

\* the board +page.svelte starts with
InitialNodes ==
    << MkNode(1, "text", Whole(0), Whole(0), Whole(250), Whole(180), TRUE),
       MkNode(2, "image", Whole(800), Whole(0), Whole(200), Whole(200), TRUE),
       MkNode(3, "text", Whole(200), Whole(300), Whole(150), Whole(100), TRUE),
       MkNode(4, "image", Whole(900), Whole(400), Whole(180), Whole(120), TRUE) >>

FirstUuid == 5

(***************************************************************************)
(* Viewport transform                                                      *)
(***************************************************************************)
\* variant: the pan is left out of the way back to the stage
screenToStageCoordinates_NoPan(screenX, screenY) ==
    [x |-> Div(screenX, zoom), y |-> Div(screenY, zoom)]

screenToStageCoordinates(screenX, screenY) ==
    [x |-> Div(Sub(screenX, panX), zoom), y |-> Div(Sub(screenY, panY), zoom)]

stageToScreenCoordinates(stageX, stageY) ==
    [x |-> Add(Mul(stageX, zoom), panX), y |-> Add(Mul(stageY, zoom), panY)]

\* event.clientX - rect.left: the container sits at the page origin
getMousePosition(clientX, clientY) ==
    IF ~containerElement THEN [x |-> Whole(0), y |-> Whole(0)]
    ELSE [x |-> Whole(clientX), y |-> Whole(clientY)]

\* variant: every handle is taken to sit at the centre of the node
getConnectorPosition_Centre(node, handle) ==
    [x |-> Add(node.x, Half(node.width)), y |-> Add(node.y, Half(node.height))]

getConnectorPosition(node, handle) ==
    LET nodeCenterX == Add(node.x, Half(node.width))
        nodeCenterY == Add(node.y, Half(node.height))
        offset == Whole(CONNECTOR_HANDLE_OFFSET)
    IN  CASE handle = "top" -> [x |-> Sub(nodeCenterX, offset), y |-> node.y]
          [] handle = "bottom" ->
                [x |-> Add(nodeCenterX, offset), y |-> Add(node.y, node.height)]
          [] handle = "left" -> [x |-> node.x, y |-> Sub(nodeCenterY, offset)]
          [] handle = "right" ->
                [x |-> Add(node.x, node.width), y |-> Add(nodeCenterY, offset)]

(***************************************************************************)
(* Snapping                                                                *)
(***************************************************************************)
\* position and size of a node along one axis
Pos(n, axis) == IF axis = "x" THEN n.x ELSE n.y
Size(n, axis) == IF axis = "x" THEN n.width ELSE n.height

\* [staticNode.x, staticNode.x + width / 2, staticNode.x + width] (or y, height)
StaticNodePoints(staticNode, axis) ==
    << Pos(staticNode, axis),
       Add(Pos(staticNode, axis), Half(Size(staticNode, axis))),
       Add(Pos(staticNode, axis), Size(staticNode, axis)) >>

\* the three points of the active node at its tentative position
ActiveNodePoints(tentative, size) ==
    << [currentVal |-> tentative, originalOffset |-> Whole(0)],
       [currentVal |-> Add(tentative, Half(size)),
        originalOffset |-> Sub(Whole(0), Half(size))],
       [currentVal |-> Add(tentative, size),
        originalOffset |-> Sub(Whole(0), size)] >>

\* variant: a delta equal to the best one so far replaces it
SnapCloser_OrEqual(delta, bestDelta) == Le(delta, bestDelta)

\* `delta < bestDelta`
SnapCloser(delta, bestDelta) == Lt(delta, bestDelta)

NoSnap ==
    [bestDelta |-> Whole(SNAP_THRESHOLD_STAGE), target |-> <<>>,
     offset |-> Whole(0), source |-> 0]

\* variant: the active node is scanned as one of the static nodes
StaticNodes_All(ns, activeNodeId) == [i \in 1..Len(ns) |-> i]

\* the indices of `nodes.filter(n => n.id !== activeNodeId)`, in store order
StaticNodes(ns, activeNodeId) ==
    SelectSeq([i \in 1..Len(ns) |-> i], LAMBDA i : ns[i].id # activeNodeId)

\* The outcome of a scan whose every iteration runs
\*     if (delta < bestDelta) { bestDelta = delta; snapTarget = ...; ... }
\* over the candidates `cands` in order, starting from bestDelta =
\* SNAP_THRESHOLD_STAGE and snapTarget = null.  Iteration c leaves its values
\* in the snap variables at the end exactly when its delta passed the test
\* against the threshold and against every earlier delta, and no later delta
\* passed the test against it.
SnapScan(cands) ==
    LET last(c) ==
            /\ SnapCloser(cands[c].bestDelta, Whole(SNAP_THRESHOLD_STAGE))
            /\ \A j \in 1..(c - 1) : SnapCloser(cands[c].bestDelta, cands[j].bestDelta)
            /\ \A j \in (c + 1)..Len(cands) :
                  ~SnapCloser(cands[j].bestDelta, cands[c].bestDelta)
    IN  IF \E c \in 1..Len(cands) : last(c)
        THEN cands[CHOOSE c \in 1..Len(cands) : last(c)]
        ELSE NoSnap

\* the loops `for staticNode / for activeP / for staticP`, in that order:
\* iteration n visits static node (n-1) \div 9, active point ((n-1) % 9) \div 3
\* and static point (n-1) % 3
DragSnapScan(ns, activeNodeId, activePoints, axis) ==
    LET static == StaticNodes(ns, activeNodeId) IN
    SnapScan([n \in 1..(9 * Len(static)) |->
        LET i == static[((n - 1) \div 9) + 1]
            activeP == activePoints[(((n - 1) % 9) \div 3) + 1]
            staticP == StaticNodePoints(ns[i], axis)[((n - 1) % 3) + 1]
        IN  [bestDelta |-> MathAbs(Sub(activeP.currentVal, staticP)),
             target |-> <<staticP>>,
             offset |-> activeP.originalOffset, source |-> i]])

DragSnapAxis(ns, activeNodeId, tentative, size, axis) ==
    DragSnapScan(ns, activeNodeId, ActiveNodePoints(tentative, size), axis)

SnapLine(type, stageValue, a, b, c, d) ==
    [type |-> type, stageValue |-> stageValue,
     start |-> MathMin4(a, b, c, d), end |-> MathMax4(a, b, c, d)]

\* variant: the snapped node's low edge is put on the target, whichever of
\* its points was the close one
DragSnapApply_NoOffset(ns, activeNode, tentativeX, tentativeY, sx, sy) ==
    LET finalX == IF sx.target # <<>> THEN sx.target[1] ELSE tentativeX
        finalY == IF sy.target # <<>> THEN sy.target[1] ELSE tentativeY
        vLine == IF sx.target # <<>>
                 THEN << SnapLine("v", sx.target[1],
                            finalY, ns[sx.source].y,
                            Add(finalY, activeNode.height),
                            Add(ns[sx.source].y, ns[sx.source].height)) >>
                 ELSE <<>>
        hLine == IF sy.target # <<>>
                 THEN << SnapLine("h", sy.target[1],
                            finalX, ns[sy.source].x,
                            Add(finalX, activeNode.width),
                            Add(ns[sy.source].x, ns[sy.source].width)) >>
                 ELSE <<>>
    IN  [newX |-> finalX, newY |-> finalY, lines |-> vLine \o hLine]

\* the part of calculateAndApplySnapsForDrag after the two scans: sx and sy
\* are the snap variables of the X and of the Y scan
DragSnapApply(ns, activeNode, tentativeX, tentativeY, sx, sy) ==
    LET finalX == IF sx.target # <<>> THEN Add(sx.target[1], sx.offset)
                  ELSE tentativeX
        finalY == IF sy.target # <<>> THEN Add(sy.target[1], sy.offset)
                  ELSE tentativeY
        vLine == IF sx.target # <<>>
                 THEN << SnapLine("v", sx.target[1],
                            finalY, ns[sx.source].y,
                            Add(finalY, activeNode.height),
                            Add(ns[sx.source].y, ns[sx.source].height)) >>
                 ELSE <<>>
        hLine == IF sy.target # <<>>
                 THEN << SnapLine("h", sy.target[1],
                            finalX, ns[sy.source].x,
                            Add(finalX, activeNode.width),
                            Add(ns[sy.source].x, ns[sy.source].width)) >>
                 ELSE <<>>
    IN  [newX |-> finalX, newY |-> finalY, lines |-> vLine \o hLine]

\* {newX, newY} and the new value of activeSnapLines
calculateAndApplySnapsForDrag(ns, activeNodeId, tentativeX, tentativeY) ==
    IF FindNode(ns, activeNodeId) = 0
    THEN [newX |-> tentativeX, newY |-> tentativeY, lines |-> activeSnapLines]
    ELSE DragSnapApply(ns, ns[FindNode(ns, activeNodeId)], tentativeX, tentativeY,
            DragSnapAxis(ns, activeNodeId, tentativeX,
                         ns[FindNode(ns, activeNodeId)].width, "x"),
            DragSnapAxis(ns, activeNodeId, tentativeY,
                         ns[FindNode(ns, activeNodeId)].height, "y"))

\* the loops `for staticNode of staticNodes / for staticEdge`: iteration n
\* visits static node (n-1) \div 3 and its edge (n-1) % 3
ResizeSnapScan(ns, activeNodeId, activeMovingEdge, axis) ==
    LET static == StaticNodes(ns, activeNodeId) IN
    SnapScan([n \in 1..(3 * Len(static)) |->
        LET i == static[((n - 1) \div 3) + 1]
            staticEdge == StaticNodePoints(ns[i], axis)[((n - 1) % 3) + 1]
        IN  [bestDelta |-> MathAbs(Sub(activeMovingEdge, staticEdge)),
             target |-> <<staticEdge>>, offset |-> Whole(0), source |-> i]])

\* variant: a snap is applied whatever size it yields
SnapKeepsMinimum_Unchecked(newSize, minSize) == TRUE

\* `newWidth >= MIN_NODE_WIDTH`: a snap may be applied only if it keeps the size
SnapKeepsMinimum(newSize, minSize) == Ge(newSize, Whole(minSize))

\* variant: a rejected snap gives the geometry back and keeps its guide line
ResizeSnapApply_RejectedKeepsLine(pos, size, isLow, fixedEdge, minSize, best) ==
    LET newSize == IF isLow THEN Sub(fixedEdge, best.target[1])
                   ELSE Sub(best.target[1], fixedEdge)
        applied == best.target # <<>> /\ Ge(newSize, Whole(minSize))
    IN  [pos |-> IF applied /\ isLow THEN best.target[1] ELSE pos,
         size |-> IF applied THEN newSize ELSE size,
         target |-> best.target,
         source |-> best.source]

\* variant: a snap of the low edge moves the node and keeps its size
ResizeSnapApply_KeepSize(pos, size, isLow, fixedEdge, minSize, best) ==
    LET newSize == IF isLow THEN Sub(fixedEdge, best.target[1])
                   ELSE Sub(best.target[1], fixedEdge)
        applied == best.target # <<>> /\ Ge(newSize, Whole(minSize))
    IN  [pos |-> IF applied /\ isLow THEN best.target[1] ELSE pos,
         size |-> IF applied /\ ~isLow THEN newSize ELSE size,
         target |-> IF applied THEN best.target ELSE <<>>,
         source |-> best.source]

\* the block `if (xSnapTargetStaticEdgeValue !== null && fixedEdgeX !== null)`
\* (or its Y twin): `best` holds the snap variables of the scan, isLow tells
\* whether the handle moves the low edge ('l' or 't').  Returns the position
\* and size on that axis, the snap target after the minimum check (<<>> is
\* null) and the index of the source node (0 is null).
ResizeSnapApply(pos, size, isLow, fixedEdge, minSize, best) ==
    LET newSize == IF isLow THEN Sub(fixedEdge, best.target[1])
                   ELSE Sub(best.target[1], fixedEdge)
        applied == best.target # <<>> /\ SnapKeepsMinimum(newSize, minSize)
    IN  [pos |-> IF applied /\ isLow THEN best.target[1] ELSE pos,
         size |-> IF applied THEN newSize ELSE size,
         target |-> IF applied THEN best.target ELSE <<>>,
         source |-> best.source]

\* One axis of calculateAndApplySnapsForResize: lo/hi name the handle letters of
\* the low edge ('l' or 't') and the high edge ('r' or 'b').
ResizeSnapAxis(ns, activeNodeId, pos, size, handle, lo, hi, axis, minSize) ==
    ResizeSnapApply(pos, size, Includes(handle, lo),
        IF Includes(handle, lo) THEN Add(pos, size) ELSE pos,
        minSize,
        IF Includes(handle, lo) \/ Includes(handle, hi)
        THEN ResizeSnapScan(ns, activeNodeId,
                 IF Includes(handle, lo) THEN pos ELSE Add(pos, size), axis)
        ELSE NoSnap)

\* the end of calculateAndApplySnapsForResize: the guide lines pushed for the
\* results ax and ay of the two axes.  The horizontal line reads
\* xSnapSourceStaticNode.x, which is null when no static X point was within
\* the threshold: the call then ends in a TypeError.
ResizeSnapLines(ns, ax, ay) ==
    LET res == [x |-> ax.pos, y |-> ay.pos, width |-> ax.size, height |-> ay.size]
        vLine == IF ax.target # <<>> /\ ax.source # 0
                 THEN << SnapLine("v", ax.target[1],
                            res.y, ns[ax.source].y,
                            Add(res.y, res.height),
                            Add(ns[ax.source].y, ns[ax.source].height)) >>
                 ELSE <<>>
        wantsH == ay.target # <<>> /\ ay.source # 0
        typeError == wantsH /\ ax.source = 0
        hLine == IF wantsH /\ ~typeError
                 THEN << SnapLine("h", ay.target[1],
                            res.x, ns[ax.source].x,
                            Add(res.x, res.width),
                            Add(ns[ax.source].x, ns[ax.source].width)) >>
                 ELSE <<>>
    IN  [res |-> res, lines |-> vLine \o hLine, threw |-> typeError]

\* {x, y, width, height}, the new value of activeSnapLines, and whether the
\* call ended in a TypeError
calculateAndApplySnapsForResize(ns, activeNodeId, tentative, handle) ==
    ResizeSnapLines(ns,
        ResizeSnapAxis(ns, activeNodeId, tentative.x, tentative.width,
                       handle, "l", "r", "x", MIN_NODE_WIDTH),
        ResizeSnapAxis(ns, activeNodeId, tentative.y, tentative.height,
                       handle, "t", "b", "y", MIN_NODE_HEIGHT))

(***************************************************************************)
(* Events                                                                  *)
(***************************************************************************)
\* event.target, classified the way the handlers classify it: kind is
\* "container", "stage", "body" (inside a .node-wrapper), "editable" (a
\* contenteditable, input or textarea inside a .node-wrapper), "resize"
\* (data-resize-handle) or "connector" (data-connector-handle)
Target(kind, nodeId, handle) == [kind |-> kind, nodeId |-> nodeId, handle |-> handle]

Background == {Target("container", NoNode, ""), Target("stage", NoNode, "")}

NoTarget == Target("none", NoNode, "")

\* variant: a connection equal to an existing one is appended all the same
addConnection_NoExistingCheck(ns, conns, uuid, fromNodeId, toNodeId, fromHandle, toHandle) ==
    IF FindNode(ns, fromNodeId) = 0 \/ FindNode(ns, toNodeId) = 0 \/ fromNodeId = toNodeId
    THEN conns
    ELSE Append(conns, [id |-> uuid,
                        from |-> [nodeId |-> fromNodeId, handle |-> fromHandle],
                        to |-> [nodeId |-> toNodeId, handle |-> toHandle]])

\* Whiteboard.addConnection: the new connection list (unchanged when the call
\* returns null)
addConnection(ns, conns, uuid, fromNodeId, toNodeId, fromHandle, toHandle) ==
    LET fromNode == FindNode(ns, fromNodeId)
        toNode == FindNode(ns, toNodeId)
        existing == \E c \in 1..Len(conns) :
                        /\ conns[c].from.nodeId = fromNodeId
                        /\ conns[c].from.handle = fromHandle
                        /\ conns[c].to.nodeId = toNodeId
                        /\ conns[c].to.handle = toHandle
    IN  IF fromNode = 0 \/ toNode = 0 \/ fromNodeId = toNodeId THEN conns
        ELSE IF existing THEN conns
        ELSE Append(conns, [id |-> uuid,
                            from |-> [nodeId |-> fromNodeId, handle |-> fromHandle],
                            to |-> [nodeId |-> toNodeId, handle |-> toHandle]])

\* variant: the connection leaves the top handle and enters the bottom one
connectNodes_TopToBottom(ns, conns, uuid, id1, id2) ==
    IF FindNode(ns, id1) = 0 \/ FindNode(ns, id2) = 0 THEN conns
    ELSE addConnection(ns, conns, uuid, id1, id2, "top", "bottom")

\* WhiteboardController.connectNodes: the new connection list
connectNodes(ns, conns, uuid, id1, id2) ==
    IF FindNode(ns, id1) = 0 \/ FindNode(ns, id2) = 0 THEN conns
    ELSE addConnection(ns, conns, uuid, id1, id2, "bottom", "top")

\* crypto.randomUUID() was called iff a connection was appended
UuidAfter(conns, newConns) == IF newConns # conns THEN nextUuid + 1 ELSE nextUuid

\* bookkeeping of one handled event or call: whether it threw, and the
\* addConnection events it dispatched
Handled(error, dispatched) ==
    /\ threw' = error
    /\ requests' = requests \o dispatched
    /\ nEvents' = nEvents + 1

Returned == Handled(FALSE, <<>>)

\* variant: a pressed node is handled as the selected node
PressedNodeIsSelected_Any(target) == TRUE

\* `selectedNodeId === nodeWrapper.getAttribute('data-node-id')`
PressedNodeIsSelected(target) == selectedNodeId = target.nodeId

handlePointerDown(target, clientX, clientY) ==
    LET nodeWrapper == target.nodeId # NoNode
        node == FindNode(nodes, target.nodeId)
    IN
    /\ activeSnapLines' = <<>>
    /\ Returned
    /\ UNCHANGED <<storeVars, containerElement, viewVars>>
    /\ IF target.kind = "connector" /\ nodeWrapper
       THEN /\ IF node = 0
               THEN UNCHANGED draggingConnection
               ELSE LET startPosStage == getConnectorPosition(nodes[node], target.handle)
                        mousePosScreen == getMousePosition(clientX, clientY)
                    IN  draggingConnection' =
                          << [startNodeId |-> target.nodeId,
                              startHandle |-> target.handle,
                              startXStage |-> startPosStage.x,
                              startYStage |-> startPosStage.y,
                              currentMouseXScreen |-> mousePosScreen.x,
                              currentMouseYScreen |-> mousePosScreen.y] >>
            /\ UNCHANGED <<panVars, dragVars, resizeVars, selectedNodeId>>
       ELSE IF target.kind = "resize" /\ nodeWrapper /\ PressedNodeIsSelected(target)
       THEN /\ IF node = 0
               THEN UNCHANGED resizeVars
               ELSE /\ isResizingNode' = TRUE
                    /\ resizingNodeId' = target.nodeId
                    /\ activeResizeHandle' = target.handle
                    /\ resizeStartMouseX' = clientX
                    /\ resizeStartMouseY' = clientY
                    /\ nodeInitialX' = nodes[node].x
                    /\ nodeInitialY' = nodes[node].y
                    /\ nodeInitialWidth' = nodes[node].width
                    /\ nodeInitialHeight' = nodes[node].height
            /\ UNCHANGED <<panVars, dragVars, selectedNodeId, draggingConnection>>
       ELSE IF nodeWrapper /\ PressedNodeIsSelected(target)
       THEN /\ IF target.kind = "editable" \/ node = 0
               THEN UNCHANGED dragVars
               ELSE /\ isDraggingNode' = TRUE
                    /\ draggedNodeId' = target.nodeId
                    /\ dragStartX' = clientX
                    /\ dragStartY' = clientY
                    /\ nodeStartDragX' = nodes[node].x
                    /\ nodeStartDragY' = nodes[node].y
            /\ UNCHANGED <<panVars, resizeVars, selectedNodeId, draggingConnection>>
       ELSE IF nodeWrapper /\ target.nodeId # selectedNodeId
       THEN /\ selectedNodeId' = target.nodeId
            /\ UNCHANGED <<panVars, dragVars, resizeVars, draggingConnection>>
       ELSE IF ~nodeWrapper /\ selectedNodeId # NoNode
       THEN /\ selectedNodeId' = NoNode
            /\ UNCHANGED <<panVars, dragVars, resizeVars, draggingConnection>>
       ELSE IF target \in Background
       THEN /\ isPanning' = TRUE
            /\ startPanX' = Sub(Whole(clientX), panX)
            /\ startPanY' = Sub(Whole(clientY), panY)
            /\ UNCHANGED <<dragVars, resizeVars, selectedNodeId, draggingConnection>>
       ELSE UNCHANGED <<panVars, dragVars, resizeVars, selectedNodeId,
                        draggingConnection>>

\* variant: the tentative geometry without the Math.max clamps
ResizeTentative_Unclamped(handle, dxStage, dyStage) ==
    LET initialRight == Add(nodeInitialX, nodeInitialWidth)
        initialBottom == Add(nodeInitialY, nodeInitialHeight)
        w1 == IF Includes(handle, "l")
              THEN Sub(initialRight, Add(nodeInitialX, dxStage))
              ELSE IF Includes(handle, "r") THEN Add(nodeInitialWidth, dxStage)
              ELSE nodeInitialWidth
        x1 == IF Includes(handle, "l") THEN Sub(initialRight, w1) ELSE nodeInitialX
        h1 == IF Includes(handle, "t")
              THEN Sub(initialBottom, Add(nodeInitialY, dyStage))
              ELSE IF Includes(handle, "b") THEN Add(nodeInitialHeight, dyStage)
              ELSE nodeInitialHeight
        y1 == IF Includes(handle, "t") THEN Sub(initialBottom, h1) ELSE nodeInitialY
        vertical == handle \in {"t", "b"}
        horizontal == handle \in {"l", "r"}
    IN  [x |-> IF vertical THEN nodeInitialX ELSE x1,
         width |-> IF vertical THEN nodeInitialWidth ELSE w1,
         y |-> IF horizontal THEN nodeInitialY ELSE y1,
         height |-> IF horizontal THEN nodeInitialHeight ELSE h1]

\* the tentative geometry of a resize move, before snapping
ResizeTentative(handle, dxStage, dyStage) ==
    LET initialRight == Add(nodeInitialX, nodeInitialWidth)
        initialBottom == Add(nodeInitialY, nodeInitialHeight)
        w1 == IF Includes(handle, "l")
              THEN MathMax(Whole(MIN_NODE_WIDTH),
                           Sub(initialRight, Add(nodeInitialX, dxStage)))
              ELSE IF Includes(handle, "r")
              THEN MathMax(Whole(MIN_NODE_WIDTH), Add(nodeInitialWidth, dxStage))
              ELSE nodeInitialWidth
        x1 == IF Includes(handle, "l") THEN Sub(initialRight, w1) ELSE nodeInitialX
        h1 == IF Includes(handle, "t")
              THEN MathMax(Whole(MIN_NODE_HEIGHT),
                           Sub(initialBottom, Add(nodeInitialY, dyStage)))
              ELSE IF Includes(handle, "b")
              THEN MathMax(Whole(MIN_NODE_HEIGHT), Add(nodeInitialHeight, dyStage))
              ELSE nodeInitialHeight
        y1 == IF Includes(handle, "t") THEN Sub(initialBottom, h1) ELSE nodeInitialY
        vertical == handle \in {"t", "b"}
        horizontal == handle \in {"l", "r"}
    IN  [x |-> IF vertical THEN nodeInitialX ELSE x1,
         width |-> IF vertical THEN nodeInitialWidth ELSE w1,
         y |-> IF horizontal THEN nodeInitialY ELSE y1,
         height |-> IF horizontal THEN nodeInitialHeight ELSE h1]

\* nodes.map(n => n.id === id ? { ...n, ...geom } : n)
ApplyGeometry(ns, id, geom) ==
    [i \in 1..Len(ns) |->
        IF ns[i].id = id
        THEN [ns[i] EXCEPT !.x = geom.x, !.y = geom.y,
                           !.width = geom.width, !.height = geom.height]
        ELSE ns[i]]

\* nodes.map(n => n.id === id ? { ...n, x: snappedX, y: snappedY } : n)
ApplyPosition(ns, id, snappedX, snappedY) ==
    [i \in 1..Len(ns) |->
        IF ns[i].id = id THEN [ns[i] EXCEPT !.x = snappedX, !.y = snappedY]
        ELSE ns[i]]

handlePointerMove(isPrimary, clientX, clientY) ==
    /\ UNCHANGED <<connections, showConnections, pendingImages, nextUuid,
                   containerElement, zoom, isPanning, startPanX, startPanY,
                   dragVars, resizeVars, selectedNodeId>>
    /\ IF ~isPrimary
       THEN /\ Returned
            /\ UNCHANGED <<nodes, panX, panY, activeSnapLines, draggingConnection>>
       ELSE IF draggingConnection # <<>>
       THEN LET mousePosScreen == getMousePosition(clientX, clientY) IN
            /\ draggingConnection' =
                 << [draggingConnection[1] EXCEPT
                        !.currentMouseXScreen = mousePosScreen.x,
                        !.currentMouseYScreen = mousePosScreen.y] >>
            /\ Returned
            /\ UNCHANGED <<nodes, panX, panY, activeSnapLines>>
       ELSE IF isResizingNode /\ resizingNodeId # NoNode /\ activeResizeHandle # ""
       THEN \E snapped \in { calculateAndApplySnapsForResize(
                                  nodes, resizingNodeId,
                                  ResizeTentative(activeResizeHandle,
                                      Div(Whole(clientX - resizeStartMouseX), zoom),
                                      Div(Whole(clientY - resizeStartMouseY), zoom)),
                                  activeResizeHandle) } :
            /\ activeSnapLines' = snapped.lines
            /\ nodes' = IF snapped.threw THEN nodes
                        ELSE ApplyGeometry(nodes, resizingNodeId, snapped.res)
            /\ Handled(snapped.threw, <<>>)
            /\ UNCHANGED <<panX, panY, draggingConnection>>
       ELSE IF isDraggingNode /\ draggedNodeId # NoNode
       THEN \E snapped \in { calculateAndApplySnapsForDrag(
                                  nodes, draggedNodeId,
                                  Add(nodeStartDragX,
                                      Div(Whole(clientX - dragStartX), zoom)),
                                  Add(nodeStartDragY,
                                      Div(Whole(clientY - dragStartY), zoom))) } :
            /\ activeSnapLines' = snapped.lines
            /\ nodes' = ApplyPosition(nodes, draggedNodeId, snapped.newX, snapped.newY)
            /\ Returned
            /\ UNCHANGED <<panX, panY, draggingConnection>>
       ELSE IF isPanning
       THEN /\ panX' = Sub(Whole(clientX), startPanX)
            /\ panY' = Sub(Whole(clientY), startPanY)
            /\ Returned
            /\ UNCHANGED <<nodes, activeSnapLines, draggingConnection>>
       ELSE /\ Returned
            /\ UNCHANGED <<nodes, panX, panY, activeSnapLines, draggingConnection>>

\* the body of handlePointerUp; pointer-leave calls it with its own event
PointerUpBody(target, button) ==
    IF button # 0
    THEN /\ Returned
         /\ UNCHANGED <<storeVars, panVars, dragVars, resizeVars,
                        activeSnapLines, draggingConnection>>
    ELSE IF draggingConnection # <<>>
    THEN LET targetNodeId == target.nodeId
             targetConnectorHandle == IF target.kind = "connector" THEN target.handle
                                      ELSE ""
             startNodeId == draggingConnection[1].startNodeId
             dispatches == /\ targetNodeId # NoNode
                           /\ targetConnectorHandle # ""
                           /\ targetNodeId # startNodeId
             newConns == IF dispatches
                         THEN connectNodes(nodes, connections, nextUuid,
                                           startNodeId, targetNodeId)
                         ELSE connections
         IN
         /\ connections' = newConns
         /\ nextUuid' = UuidAfter(connections, newConns)
         /\ draggingConnection' = <<>>
         /\ Handled(FALSE,
                    IF dispatches
                    THEN << [from |-> startNodeId, to |-> targetNodeId] >>
                    ELSE <<>>)
         /\ UNCHANGED <<nodes, showConnections, pendingImages, panVars, dragVars,
                        resizeVars, activeSnapLines>>
    ELSE IF isResizingNode
    THEN /\ isResizingNode' = FALSE
         /\ resizingNodeId' = NoNode
         /\ activeResizeHandle' = ""
         /\ activeSnapLines' = <<>>
         /\ Returned
         /\ UNCHANGED <<storeVars, panVars, dragVars, draggingConnection,
                        resizeStartMouseX, resizeStartMouseY, nodeInitialX,
                        nodeInitialY, nodeInitialWidth, nodeInitialHeight>>
    ELSE IF isDraggingNode
    THEN /\ isDraggingNode' = FALSE
         /\ draggedNodeId' = NoNode
         /\ activeSnapLines' = <<>>
         /\ Returned
         /\ UNCHANGED <<storeVars, panVars, resizeVars, draggingConnection,
                        dragStartX, dragStartY, nodeStartDragX, nodeStartDragY>>
    ELSE IF isPanning
    THEN /\ isPanning' = FALSE
         /\ activeSnapLines' = <<>>
         /\ Returned
         /\ UNCHANGED <<storeVars, dragVars, resizeVars, draggingConnection,
                        startPanX, startPanY>>
    ELSE /\ Returned
         /\ UNCHANGED <<storeVars, panVars, dragVars, resizeVars,
                        activeSnapLines, draggingConnection>>

handlePointerUp(target, button) ==
    /\ PointerUpBody(target, button)
    /\ UNCHANGED <<containerElement, viewVars, selectedNodeId>>

handlePointerLeave(button) ==
    /\ UNCHANGED <<containerElement, viewVars, selectedNodeId>>
    /\ IF draggingConnection # <<>>
       THEN /\ draggingConnection' = <<>>
            /\ Returned
            /\ UNCHANGED <<storeVars, panVars, dragVars, resizeVars, activeSnapLines>>
       ELSE IF isDraggingNode \/ isPanning \/ isResizingNode
       THEN PointerUpBody(NoTarget, button)
       ELSE /\ Returned
            /\ UNCHANGED <<storeVars, panVars, dragVars, resizeVars,
                           activeSnapLines, draggingConnection>>

\* variant: the value is taken as it comes
Clamp_Unclamped(lo, hi, v) == v

\* `Math.max(lo, Math.min(hi, v))`
Clamp(lo, hi, v) == MathMax(lo, MathMin(hi, v))

\* variant: the wheel changes the zoom and leaves the pan alone
handleWheel_KeepPan(deltaY, clientX, clientY) ==
    /\ activeSnapLines' = <<>>
    /\ zoom' = Clamp(minZoom, maxZoom,
                     Mul(zoom, Add(Whole(1), Mul(Whole(-deltaY), zoomSensitivity))))
    /\ Returned
    /\ UNCHANGED <<storeVars, containerElement, panX, panY, panVars, dragVars,
                   resizeVars, selectedNodeId, draggingConnection>>

\* variant: the wheel leaves the guide lines on the screen
handleWheel_KeepLines(deltaY, clientX, clientY) ==
    LET mouse == getMousePosition(clientX, clientY)
        newZoom == Clamp(minZoom, maxZoom,
                         Mul(zoom, Add(Whole(1), Mul(Whole(-deltaY), zoomSensitivity))))
    IN
    /\ zoom' = newZoom
    /\ panX' = Sub(mouse.x, Mul(Div(Sub(mouse.x, panX), zoom), newZoom))
    /\ panY' = Sub(mouse.y, Mul(Div(Sub(mouse.y, panY), zoom), newZoom))
    /\ Returned
    /\ UNCHANGED <<storeVars, containerElement, panVars, dragVars, resizeVars,
                   selectedNodeId, draggingConnection, activeSnapLines>>

\* variant: zooming with the wheel ends a panning session
handleWheel_EndsPanning(deltaY, clientX, clientY) ==
    LET mouse == getMousePosition(clientX, clientY)
        delta == Mul(Whole(-deltaY), zoomSensitivity)
        newZoom == Clamp(minZoom, maxZoom, Mul(zoom, Add(Whole(1), delta)))
        stageMouseX == Div(Sub(mouse.x, panX), zoom)
        stageMouseY == Div(Sub(mouse.y, panY), zoom)
    IN
    /\ activeSnapLines' = <<>>
    /\ zoom' = newZoom
    /\ panX' = Sub(mouse.x, Mul(stageMouseX, newZoom))
    /\ panY' = Sub(mouse.y, Mul(stageMouseY, newZoom))
    /\ isPanning' = FALSE
    /\ Returned
    /\ UNCHANGED <<storeVars, containerElement, startPanX, startPanY, dragVars,
                   resizeVars, selectedNodeId, draggingConnection>>

handleWheel(deltaY, clientX, clientY) ==
    LET mouse == getMousePosition(clientX, clientY)
        delta == Mul(Whole(-deltaY), zoomSensitivity)
        newZoom == Clamp(minZoom, maxZoom, Mul(zoom, Add(Whole(1), delta)))
        stageMouseX == Div(Sub(mouse.x, panX), zoom)
        stageMouseY == Div(Sub(mouse.y, panY), zoom)
    IN
    /\ activeSnapLines' = <<>>
    /\ zoom' = newZoom
    /\ panX' = Sub(mouse.x, Mul(stageMouseX, newZoom))
    /\ panY' = Sub(mouse.y, Mul(stageMouseY, newZoom))
    /\ Returned
    /\ UNCHANGED <<storeVars, containerElement, panVars, dragVars, resizeVars,
                   selectedNodeId, draggingConnection>>

(***************************************************************************)
(* Public API of the whiteboard and the controller's commands              *)
(***************************************************************************)
\* <<>> is null (the container is not bound yet)
getStageCoordinatesForScreenCenter ==
    IF ~containerElement THEN <<>>
    ELSE << screenToStageCoordinates(Half(Whole(clientWidth)),
                                     Half(Whole(clientHeight))) >>

\* Whiteboard.addNode: props.width / props.height are <<>> when not a number,
\* props.showId is <<>> when undefined
addNode(ns, uuid, type, x, y, propsWidth, propsHeight, propsShowId) ==
    Append(ns,
        MkNode(uuid, type, x, y,
               IF propsWidth # <<>> THEN propsWidth[1] ELSE Whole(DEFAULT_NODE_WIDTH),
               IF propsHeight # <<>> THEN propsHeight[1] ELSE Whole(DEFAULT_NODE_HEIGHT),
               IF propsShowId # <<>> THEN propsShowId[1]
               ELSE IF Len(ns) > 0 THEN ns[1].showId ELSE FALSE))

\* nodes.length > 0 ? nodes[0].showId : false
showIdForNewNode(ns) == IF Len(ns) > 0 THEN ns[1].showId ELSE FALSE

\* jitterX, jitterY: the values of (Math.random() - 0.5) * 50
addTextNode(jitterX, jitterY) ==
    LET viewCenter == getStageCoordinatesForScreenCenter IN
    /\ IF viewCenter = <<>>
       THEN UNCHANGED <<nodes, nextUuid>>
       ELSE LET randomX == Add(Sub(viewCenter[1].x, Half(Whole(DEFAULT_NODE_WIDTH))),
                               Whole(jitterX))
                randomY == Add(Sub(viewCenter[1].y, Half(Whole(DEFAULT_NODE_HEIGHT))),
                               Whole(jitterY))
            IN  /\ nodes' = addNode(nodes, nextUuid, "text", randomX, randomY,
                                    <<>>, <<>>, <<showIdForNewNode(nodes)>>)
                /\ nextUuid' = nextUuid + 1
    /\ Returned
    /\ UNCHANGED <<connections, showConnections, pendingImages, containerElement,
                   viewVars, panVars, dragVars, resizeVars, selectedNodeId,
                   activeSnapLines, draggingConnection>>

\* addImageNode up to `img.src = ...`: the load is pending, with the view
\* center and the showId the closure addTheNode captured
addImageNode ==
    LET viewCenter == getStageCoordinatesForScreenCenter IN
    /\ IF viewCenter = <<>>
       THEN UNCHANGED pendingImages
       ELSE pendingImages' = Append(pendingImages,
                [viewCenter |-> viewCenter[1], showId |-> showIdForNewNode(nodes)])
    /\ Returned
    /\ UNCHANGED <<nodes, connections, showConnections, nextUuid, containerElement,
                   viewVars, panVars, dragVars, resizeVars, selectedNodeId,
                   activeSnapLines, draggingConnection>>

RemoveAt(seq, i) == [j \in 1..(Len(seq) - 1) |-> IF j < i THEN seq[j] ELSE seq[j + 1]]

\* img.onload / img.onerror of pending load p: addTheNode(src, w, h); the
\* intrinsic size is 0 x 0 for onerror (addTheNode(src) passes none)
addTheNode(p, intrinsicWidth, intrinsicHeight, jitterX, jitterY) ==
    LET viewCenter == pendingImages[p].viewCenter
        initialWidth == IF intrinsicWidth # 0
                        THEN MathMin(Whole(intrinsicWidth), Whole(MaxImageWidth))
                        ELSE Whole(DEFAULT_NODE_WIDTH)
        initialHeight == IF intrinsicHeight # 0
                         THEN MathMin(Whole(intrinsicHeight), Whole(MaxImageHeight))
                         ELSE Whole(DEFAULT_NODE_HEIGHT)
        randomX == Add(Sub(viewCenter.x, Half(initialWidth)), Whole(jitterX))
        randomY == Add(Sub(viewCenter.y, Half(initialHeight)), Whole(jitterY))
    IN
    /\ nodes' = addNode(nodes, nextUuid, "image", randomX, randomY,
                        <<initialWidth>>, <<initialHeight>>,
                        <<pendingImages[p].showId>>)
    /\ nextUuid' = nextUuid + 1
    /\ pendingImages' = RemoveAt(pendingImages, p)
    /\ Returned
    /\ UNCHANGED <<connections, showConnections, containerElement,
                   viewVars, panVars, dragVars, resizeVars, selectedNodeId,
                   activeSnapLines, draggingConnection>>

\* the `connect <id1> <id2>` command
connectNodesCommand(id1, id2) ==
    LET newConns == connectNodes(nodes, connections, nextUuid, id1, id2) IN
    /\ connections' = newConns
    /\ nextUuid' = UuidAfter(connections, newConns)
    /\ Returned
    /\ UNCHANGED <<nodes, showConnections, pendingImages, containerElement,
                   viewVars, panVars, dragVars, resizeVars, selectedNodeId,
                   activeSnapLines, draggingConnection>>

toggleIDHidden ==
    LET newShowIdState == IF Len(nodes) > 0 THEN ~nodes[1].showId ELSE TRUE IN
    /\ nodes' = [i \in 1..Len(nodes) |-> [nodes[i] EXCEPT !.showId = newShowIdState]]
    /\ Returned
    /\ UNCHANGED <<connections, showConnections, pendingImages, nextUuid,
                   containerElement, viewVars, panVars, dragVars, resizeVars,
                   selectedNodeId, activeSnapLines, draggingConnection>>

\* variant: the nodes are cleared and the connections are kept
clearNodes_KeepConnections ==
    /\ nodes' = <<>>
    /\ Returned
    /\ UNCHANGED <<connections, showConnections, pendingImages, nextUuid,
                   containerElement, viewVars, panVars, dragVars, resizeVars,
                   selectedNodeId, activeSnapLines, draggingConnection>>

\* variant: clearing the board also moves the view back to pan (0, 0)
clearNodes_ResetsPan ==
    /\ nodes' = <<>>
    /\ connections' = <<>>
    /\ panX' = Whole(0) /\ panY' = Whole(0)
    /\ Returned
    /\ UNCHANGED <<showConnections, pendingImages, nextUuid,
                   containerElement, zoom, panVars, dragVars, resizeVars,
                   selectedNodeId, activeSnapLines, draggingConnection>>

clearNodes ==
    /\ nodes' = <<>>
    /\ connections' = <<>>
    /\ Returned
    /\ UNCHANGED <<showConnections, pendingImages, nextUuid,
                   containerElement, viewVars, panVars, dragVars, resizeVars,
                   selectedNodeId, activeSnapLines, draggingConnection>>

\* variant: the target is centred as if the zoom were 1
panToResult_IgnoreZoom(px, py, z, targetX, targetY) ==
    IF ~containerElement THEN <<px, py>>
    ELSE << Sub(Half(Whole(clientWidth)), targetX),
            Sub(Half(Whole(clientHeight)), targetY) >>

\* variant: the pan is set whether or not the container is bound
panToResult_Unguarded(px, py, z, targetX, targetY) ==
    << Sub(Half(Whole(clientWidth)), Mul(targetX, z)),
       Sub(Half(Whole(clientHeight)), Mul(targetY, z)) >>

\* Whiteboard.panTo: the new <<panX, panY>>
panToResult(px, py, z, targetX, targetY) ==
    IF ~containerElement THEN <<px, py>>
    ELSE << Sub(Half(Whole(clientWidth)), Mul(targetX, z)),
            Sub(Half(Whole(clientHeight)), Mul(targetY, z)) >>

\* Whiteboard.setZoom without an anchor: the new <<panX, panY, zoom>>
setZoomResult(px, py, z, newZoomLevel) ==
    LET clampedZoom == Clamp(minZoom, maxZoom, newZoomLevel)
        screenCenterX == Half(Whole(clientWidth))
        screenCenterY == Half(Whole(clientHeight))
        stageCenterX == Div(Sub(screenCenterX, px), z)
        stageCenterY == Div(Sub(screenCenterY, py), z)
    IN  IF containerElement
        THEN << Sub(screenCenterX, Mul(stageCenterX, clampedZoom)),
                Sub(screenCenterY, Mul(stageCenterY, clampedZoom)),
                clampedZoom >>
        ELSE << px, py, clampedZoom >>

\* variant: the anchored zoom keeps the pan
setZoomAnchoredResult_KeepPan(px, py, z, newZoomLevel, centerX, centerY) ==
    << px, py, Clamp(minZoom, maxZoom, newZoomLevel) >>

\* Whiteboard.setZoom with centerX and centerY: the new <<panX, panY, zoom>>
setZoomAnchoredResult(px, py, z, newZoomLevel, centerX, centerY) ==
    LET clampedZoom == Clamp(minZoom, maxZoom, newZoomLevel)
        screenCenterX == Add(Mul(centerX, z), px)
        screenCenterY == Add(Mul(centerY, z), py)
    IN  IF containerElement
        THEN << Sub(screenCenterX, Mul(centerX, clampedZoom)),
                Sub(screenCenterY, Mul(centerY, clampedZoom)),
                clampedZoom >>
        ELSE << px, py, clampedZoom >>

ViewCall(newView) ==
    /\ panX' = newView[1]
    /\ panY' = newView[2]
    /\ zoom' = newView[3]
    /\ Returned
    /\ UNCHANGED <<storeVars, containerElement, panVars, dragVars, resizeVars,
                   selectedNodeId, activeSnapLines, draggingConnection>>

\* Whiteboard.setZoom(newZoomLevel, centerX, centerY)
whiteboardSetZoom(newZoomLevel, centerX, centerY) ==
    ViewCall(setZoomAnchoredResult(panX, panY, zoom, newZoomLevel, centerX, centerY))

\* controller.panTo (the `set pan <x> <y>` command)
panTo(x, y) ==
    LET p == panToResult(panX, panY, zoom, Whole(x), Whole(y)) IN
    ViewCall(<<p[1], p[2], zoom>>)

panBy(dx, dy) ==
    ViewCall(<<Add(panX, Whole(dx)), Add(panY, Whole(dy)), zoom>>)

\* controller.setZoom with a target already parsed to a number
setZoom(target) ==
    LET t == IF isNaN(target) \/ Le(target, Whole(0)) \/ Lt(Whole(10), target)
             THEN Whole(1) ELSE target
    IN  ViewCall(setZoomResult(panX, panY, zoom, t))

\* controller.zoom with a factor already parsed to a number
zoomCommand(direction, factor) ==
    LET f == IF isNaN(factor) \/ Le(factor, Num(1, 10)) \/ Lt(Whole(5), factor)
             THEN Num(12, 10)
             ELSE factor
        targetZoom == IF direction = "in" THEN Mul(zoom, f) ELSE Div(zoom, f)
    IN  ViewCall(setZoomResult(panX, panY, zoom, targetZoom))

\* variant: the view is zoomed to 1 where it stands
resetView_ZoomOnly == ViewCall(setZoomResult(panX, panY, zoom, Whole(1)))

resetView ==
    LET p == panToResult(panX, panY, zoom, Whole(0), Whole(0)) IN
    ViewCall(setZoomResult(p[1], p[2], zoom, Whole(1)))

(***************************************************************************)
(* WhiteboardController.autoArrangeNodes                                   *)
(***************************************************************************)
\* Math.min / Math.max folded over a non-empty set of numbers (from Infinity /
\* -Infinity, or from 0 when 0 is in the set)
MinOf(vals) ==
    IF \E v \in vals : isNaN(v) THEN NaN
    ELSE CHOOSE v \in vals : \A w \in vals : Le(v, w)

MaxOf(vals) ==
    IF \E v \in vals : isNaN(v) THEN NaN
    ELSE CHOOSE v \in vals : \A w \in vals : Le(w, v)

\* `a || b` on numbers: 0 and NaN are falsy
OrElse(a, b) == IF isNaN(a) \/ a = Whole(0) THEN b ELSE a

\* Math.round(Math.sqrt(q)) of a number q >= 0 (halves round up)
RoundSqrt(q) ==
    LET q4 == Mul(Whole(4), q) IN
    CHOOSE k \in 0..((q[1] \div q[2]) + 1) :
        /\ k = 0 \/ Le(Whole((2 * k - 1) * (2 * k - 1)), q4)
        /\ Lt(q4, Whole((2 * k + 1) * (2 * k + 1)))

\* the string or number handed to arrange, as the padding it yields: 60 when
\* absent, the number itself, parseInt of a string (NaN when no integer leads
\* it); the warning about NaN substitutes nothing
Undefined == <<"undefined">>

ParsePadding(paddingInput) ==
    IF paddingInput = Undefined THEN Whole(60) ELSE paddingInput

\* minX, minY, maxX, maxY of the nodes
LayoutBounds(ns) ==
    [minX |-> MinOf({ns[i].x : i \in 1..Len(ns)}),
     minY |-> MinOf({ns[i].y : i \in 1..Len(ns)}),
     maxX |-> MaxOf({Add(ns[i].x, ns[i].width) : i \in 1..Len(ns)}),
     maxY |-> MaxOf({Add(ns[i].y, ns[i].height) : i \in 1..Len(ns)})]

LayoutCenter(b) ==
    [x |-> Add(b.minX, Half(Sub(b.maxX, b.minX))),
     y |-> Add(b.minY, Half(Sub(b.maxY, b.minY)))]

estimatedCols(ns) ==
    LET b == LayoutBounds(ns)
        currentLayoutWidth == Sub(b.maxX, b.minX)
        currentLayoutHeight == Sub(b.maxY, b.minY)
        aspectRatio == IF Lt(Whole(0), currentLayoutWidth)
                          /\ Lt(Whole(0), currentLayoutHeight)
                       THEN Div(currentLayoutWidth, currentLayoutHeight)
                       ELSE Whole(1)
        cols == RoundSqrt(Mul(Whole(Len(ns)), aspectRatio))
    IN  IF cols < 1 THEN 1 ELSE cols

estimatedRows(ns) ==
    LET cols == estimatedCols(ns)
        rows == (Len(ns) + cols - 1) \div cols
    IN  IF rows < 1 THEN 1 ELSE rows

\* the cells <<row, col>> of the grid
GridCells(rows, cols) == (0..(rows - 1)) \X (0..(cols - 1))

RowMajorBefore(a, b) == a[1] < b[1] \/ (a[1] = b[1] /\ a[2] < b[2])

\* [...currentNodes].sort by Math.hypot distance to the layout centre; the
\* sort is stable and the distances compare as their squares do
sortedNodes(ns) ==
    LET c == LayoutCenter(LayoutBounds(ns))
        dist(i) == LET dx == Sub(ns[i].x, c.x)
                       dy == Sub(ns[i].y, c.y)
                   IN  Add(Mul(dx, dx), Mul(dy, dy))
        before(j, i) == Lt(dist(j), dist(i)) \/ (~Lt(dist(i), dist(j)) /\ j < i)
        rank(i) == Cardinality({j \in 1..Len(ns) : before(j, i)})
    IN  [k \in 1..Len(ns) |-> ns[CHOOSE i \in 1..Len(ns) : rank(i) = k - 1]]

\* variant: every other node of the board counts as a neighbour, connected
\* or not
adjList_EveryOtherNode(conns, id) ==
    LET other(n) == n.id # id
        others == SelectSeq(nodes, other)
    IN  [k \in 1..Len(others) |-> others[k].id]

\* adjList.get(id): the other endpoint of every connection that touches id,
\* in the order of the connection list (the store holds no self-loop)
adjList(conns, id) ==
    LET touches(c) == c.from.nodeId = id \/ c.to.nodeId = id
        touching == SelectSeq(conns, touches)
    IN  [k \in 1..Len(touching) |->
            IF touching[k].from.nodeId = id THEN touching[k].to.nodeId
            ELSE touching[k].from.nodeId]

\* grid filled with null and nodesWithGridPos without grid positions
EmptyGrid(ns, rows, cols) ==
    [grid |-> [cell \in GridCells(rows, cols) |-> NoNode],
     pos |-> [id \in {ns[i].id : i \in 1..Len(ns)} |-> <<>>]]

\* grid[row][col] = id; gridRow, gridCol of the node = row, col
PutInCell(st, id, cell) ==
    [grid |-> [c \in DOMAIN st.grid |-> IF c = cell THEN id ELSE st.grid[c]],
     pos |-> [n \in DOMAIN st.pos |-> IF n = id THEN cell ELSE st.pos[n]]]

placedNodes(st) == {id \in DOMAIN st.pos : st.pos[id] # <<>>}

\* the scan for bestRow, bestCol: the empty cell closest to the target, the
\* first in row-major order among equals; no cell when the distance is NaN
NearestEmptyCell(st, targetRow, targetCol) ==
    LET distSq(cell) ==
            LET dr == Sub(Whole(cell[1]), targetRow)
                dc == Sub(Whole(cell[2]), targetCol)
            IN  Add(Mul(dr, dr), Mul(dc, dc))
        empty == {cell \in DOMAIN st.grid : st.grid[cell] = NoNode}
    IN  {b \in empty :
            /\ ~isNaN(distSq(b))
            /\ \A e \in empty :
                  /\ RowMajorBefore(e, b) => Lt(distSq(b), distSq(e))
                  /\ RowMajorBefore(b, e) => ~Lt(distSq(e), distSq(b))}

\* variant: a neighbour that was placed a moment ago is not placed again
NeighbourStillUnplaced_Checked(st, neighborId) == st.pos[neighborId] = <<>>

\* inside neighborsToPlace.forEach nothing asks whether the neighbour was
\* placed by an earlier round of the same loop
NeighbourStillUnplaced(st, neighborId) == TRUE

\* one round of neighborsToPlace.forEach: the neighbour goes to the first
\* empty in-grid cell of the randomly ordered adjacentOffsets, any of the
\* empty adjacent cells; nowhere when there is none
PlaceNeighbour(st, neighborId, best) ==
    LET free == {cell \in DOMAIN st.grid :
                    /\ cell # best
                    /\ Abs(cell[1] - best[1]) <= 1 /\ Abs(cell[2] - best[2]) <= 1
                    /\ st.grid[cell] = NoNode}
    IN  IF neighborId \notin DOMAIN st.pos THEN {st}
        ELSE IF ~NeighbourStillUnplaced(st, neighborId) THEN {st}
        ELSE IF free = {} THEN {st}
        ELSE {PutInCell(st, neighborId, cell) : cell \in free}

RECURSIVE PlaceNeighbours(_, _, _, _)
PlaceNeighbours(sts, neighborsToPlace, k, best) ==
    IF k > Len(neighborsToPlace) THEN sts
    ELSE PlaceNeighbours(UNION {PlaceNeighbour(st, neighborsToPlace[k], best) : st \in sts},
                         neighborsToPlace, k + 1, best)

\* one round of sortedNodes.forEach
PlaceSortedNode(st, node, conns, b, rows, cols) ==
    LET relativeX == Sub(node.x, b.minX)
        relativeY == Sub(node.y, b.minY)
        currentLayoutWidth == Sub(b.maxX, b.minX)
        currentLayoutHeight == Sub(b.maxY, b.minY)
        targetCol == MathMin(Whole(cols - 1),
                             MathFloor(Mul(Div(relativeX, OrElse(currentLayoutWidth, Whole(1))),
                                           Whole(cols))))
        targetRow == MathMin(Whole(rows - 1),
                             MathFloor(Mul(Div(relativeY, OrElse(currentLayoutHeight, Whole(1))),
                                           Whole(rows))))
        clampedTargetCol == MathMax(Whole(0), MathMin(Whole(cols - 1), targetCol))
        clampedTargetRow == MathMax(Whole(0), MathMin(Whole(rows - 1), targetRow))
        found == NearestEmptyCell(st, clampedTargetRow, clampedTargetCol)
    IN  IF node.id \in placedNodes(st) THEN {st}
        ELSE IF found = {} THEN {st}
        ELSE LET best == CHOOSE cell \in found : TRUE
                 placed == PutInCell(st, node.id, best)
                 unplaced(id) == id \notin placedNodes(placed)
                 neighborsToPlace == SelectSeq(adjList(conns, node.id), unplaced)
             IN  PlaceNeighbours({placed}, neighborsToPlace, 1, best)

RECURSIVE PlaceSortedNodes(_, _, _, _, _, _, _)
PlaceSortedNodes(sts, sorted, k, conns, b, rows, cols) ==
    IF k > Len(sorted) THEN sts
    ELSE PlaceSortedNodes(
             UNION {PlaceSortedNode(st, sorted[k], conns, b, rows, cols) : st \in sts},
             sorted, k + 1, conns, b, rows, cols)

\* the while loop of the fallback: from the cursor to the next empty cell in
\* row-major order, <<rows, 0>> when there is none; a cursor already past the
\* last column stays where it is
AdvanceCursor(st, cur, rows, cols) ==
    LET later == {cell \in DOMAIN st.grid :
                     ~RowMajorBefore(cell, cur) /\ st.grid[cell] = NoNode}
    IN  IF ~(cur[1] < rows /\ cur[2] < cols) THEN cur
        ELSE IF later = {} THEN <<rows, 0>>
        ELSE CHOOSE cell \in later : \A other \in later : ~RowMajorBefore(other, cell)

\* the fallback nodesWithGridPos.forEach: nodes still without a cell take the
\* cells the cursor finds
RECURSIVE PlaceRemaining(_, _, _, _, _, _)
PlaceRemaining(st, cur, ns, k, rows, cols) ==
    IF k > Len(ns) THEN st
    ELSE IF ns[k].id \in placedNodes(st) THEN PlaceRemaining(st, cur, ns, k + 1, rows, cols)
    ELSE LET at == AdvanceCursor(st, cur, rows, cols) IN
         IF at[1] < rows /\ at[2] < cols
         THEN PlaceRemaining(PutInCell(st, ns[k].id, at), <<at[1], at[2] + 1>>,
                             ns, k + 1, rows, cols)
         ELSE PlaceRemaining(st, at, ns, k + 1, rows, cols)

\* colOffsets / rowOffsets: [padding], then offset + size + padding
GridOffsets(sizes, padding) ==
    LET offsets[i \in DOMAIN sizes] ==
            IF i = 0 THEN padding
            ELSE Add(Add(offsets[i - 1], sizes[i - 1]), padding)
    IN  offsets

\* variant: the arranged copy of a node is given the default width
ArrangedNode_Resized(node, newX, newY) ==
    [node EXCEPT !.x = newX, !.y = newY, !.width = Whole(DEFAULT_NODE_WIDTH)]

\* `{ ...node, x: newX, y: newY }`
ArrangedNode(node, newX, newY) == [node EXCEPT !.x = newX, !.y = newY]

\* finalArrangedNodes for one outcome of the placement
finalArrangedNodes(ns, st, rows, cols, padding) ==
    LET inCol(c) == {i \in 1..Len(ns) : st.pos[ns[i].id] # <<>> /\ st.pos[ns[i].id][2] = c}
        inRow(r) == {i \in 1..Len(ns) : st.pos[ns[i].id] # <<>> /\ st.pos[ns[i].id][1] = r}
        colWidths == [c \in 0..(cols - 1) |->
                         MaxOf({Whole(0)} \cup {ns[i].width : i \in inCol(c)})]
        rowHeights == [r \in 0..(rows - 1) |->
                         MaxOf({Whole(0)} \cup {ns[i].height : i \in inRow(r)})]
        colOffsets == GridOffsets(colWidths, padding)
        rowOffsets == GridOffsets(rowHeights, padding)
    IN  [i \in 1..Len(ns) |->
            LET cell == st.pos[ns[i].id] IN
            IF cell # <<>>
            THEN ArrangedNode(ns[i], colOffsets[cell[2]], rowOffsets[cell[1]])
            ELSE ns[i]]

\* every outcome of the placement for a non-empty node list: the grid
\* position of each node (<<>> for a node left out) and the arranged nodes
ArrangeOutcomes(ns, conns, padding) ==
    LET rows == estimatedRows(ns)
        cols == estimatedCols(ns)
        b == LayoutBounds(ns)
        afterSorted == PlaceSortedNodes({EmptyGrid(ns, rows, cols)}, sortedNodes(ns), 1,
                                        conns, b, rows, cols)
    IN  {LET st == PlaceRemaining(s, <<0, 0>>, ns, 1, rows, cols) IN
         [pos |-> st.pos, nodes |-> finalArrangedNodes(ns, st, rows, cols, padding)]
           : s \in afterSorted}

\* the pan after this.whiteboard.panTo(layoutCenterX, layoutCenterY)
ArrangedPan(arranged) ==
    LET c == LayoutCenter(LayoutBounds(arranged)) IN
    panToResult(panX, panY, zoom, c.x, c.y)

\* controller.autoArrangeNodes(paddingInput) on a non-empty node list
autoArrangeNodes(paddingInput) ==
    /\ Len(nodes) > 0
    /\ \E out \in ArrangeOutcomes(nodes, connections, ParsePadding(paddingInput)) :
          \E p \in {ArrangedPan(out.nodes)} :
             nodes' = out.nodes /\ panX' = p[1] /\ panY' = p[2]
    /\ Returned
    /\ UNCHANGED <<connections, showConnections, pendingImages, nextUuid,
                   containerElement, zoom, panVars, dragVars, resizeVars,
                   selectedNodeId, activeSnapLines, draggingConnection>>

\* `if (currentNodes.length === 0) return;`
autoArrangeNothing ==
    /\ Len(nodes) = 0
    /\ Returned
    /\ UNCHANGED <<storeVars, containerElement, viewVars, panVars, dragVars,
                   resizeVars, selectedNodeId, activeSnapLines, draggingConnection>>

\* Whiteboard.addConnection called as the public operation it is
addConnectionCall(fromNodeId, toNodeId, fromHandle, toHandle) ==
    LET newConnections == addConnection(nodes, connections, nextUuid,
                                        fromNodeId, toNodeId, fromHandle, toHandle)
    IN
    /\ connections' = newConnections
    /\ nextUuid' = UuidAfter(connections, newConnections)
    /\ Returned
    /\ UNCHANGED <<nodes, showConnections, pendingImages, containerElement, viewVars,
                   panVars, dragVars, resizeVars, selectedNodeId, activeSnapLines,
                   draggingConnection>>

(***************************************************************************)
(* The whole machine, from the board +page.svelte constructs               *)
(***************************************************************************)
\* bounds of the exploration
MaxEvents == 4
MaxPending == 1
MaxGesture == 3

\* inputs of the events and commands
DownPoints == {<<100, 100>>}
MovePoints == {<<145, 100>>, <<-200, 5>>}
Buttons == {0, 2}
LeaveButtons == {-1, 0}
WheelDeltas == {-250}
Jitters == {0}
ImageSizes == {<<0, 0>>, <<10, 10>>, <<800, 800>>}
MissingId == 99
CommandIds == {1, 2, MissingId}
ZoomTargets == {Num(1, 2)}
PressedConnectors == {"bottom", "left"}

\* the elements a pointer event can land on: resize handles are rendered for
\* the selected node only, connector handles for every node, and only text
\* nodes hold an editable element
Targets ==
    Background
    \cup {Target("body", nodes[i].id, "") : i \in 1..Len(nodes)}
    \cup {Target("editable", nodes[i].id, "") :
            i \in {j \in 1..Len(nodes) : nodes[j].kind = "text"}}
    \cup {Target("connector", nodes[i].id, h) :
            i \in 1..Len(nodes), h \in PressedConnectors}
    \cup {Target("resize", nodes[i].id, h) :
            i \in {j \in 1..Len(nodes) : nodes[j].id = selectedNodeId},
            h \in resizeHandles}

InitSession ==
    /\ isPanning = FALSE /\ startPanX = Whole(0) /\ startPanY = Whole(0)
    /\ isDraggingNode = FALSE /\ draggedNodeId = NoNode
    /\ dragStartX = 0 /\ dragStartY = 0
    /\ nodeStartDragX = Whole(0) /\ nodeStartDragY = Whole(0)
    /\ isResizingNode = FALSE /\ resizingNodeId = NoNode /\ activeResizeHandle = ""
    /\ resizeStartMouseX = 0 /\ resizeStartMouseY = 0
    /\ nodeInitialX = Whole(0) /\ nodeInitialY = Whole(0)
    /\ nodeInitialWidth = Whole(0) /\ nodeInitialHeight = Whole(0)
    /\ activeSnapLines = <<>>
    /\ draggingConnection = <<>>
    /\ threw = FALSE
    /\ requests = <<>>
    /\ nEvents = 0

Init ==
    /\ nodes = InitialNodes
    /\ connections = <<>>
    /\ showConnections = TRUE
    /\ containerElement = TRUE
    /\ panX = Whole(0) /\ panY = Whole(0) /\ zoom = Whole(1)
    /\ selectedNodeId = NoNode
    /\ pendingImages = <<>>
    /\ nextUuid = FirstUuid
    /\ InitSession

\* every action is one handled event or one command; MaxEvents bounds the run
Budget == nEvents < MaxEvents

PointerDown ==
    Budget /\ \E t \in Targets, p \in DownPoints : handlePointerDown(t, p[1], p[2])
PointerMove ==
    Budget /\ \E prim \in BOOLEAN, p \in MovePoints : handlePointerMove(prim, p[1], p[2])
PointerUp == Budget /\ \E t \in Targets, b \in Buttons : handlePointerUp(t, b)
PointerLeave == Budget /\ \E b \in LeaveButtons : handlePointerLeave(b)
Wheel == Budget /\ \E d \in WheelDeltas, p \in DownPoints : handleWheel(d, p[1], p[2])
AddText == Budget /\ \E j \in Jitters : addTextNode(j, j)
AddImage == Budget /\ Len(pendingImages) < MaxPending /\ addImageNode
ImageSettled ==
    /\ Budget
    /\ \E p \in 1..Len(pendingImages), sz \in ImageSizes, j \in Jitters :
          addTheNode(p, sz[1], sz[2], j, j)
Connect == Budget /\ \E a \in CommandIds, b \in CommandIds : connectNodesCommand(a, b)
ToggleIds == Budget /\ toggleIDHidden
Clear == Budget /\ clearNodes
PanTo == Budget /\ panTo(0, 0)
PanBy == Budget /\ panBy(10, 0)
SetZoom == Budget /\ \E z \in ZoomTargets : setZoom(z)
ZoomIn == Budget /\ zoomCommand("in", Whole(2))
ResetView == Budget /\ resetView

Next ==
    \/ PointerDown
    \/ PointerMove
    \/ PointerUp
    \/ PointerLeave
    \/ Wheel
    \/ AddText
    \/ AddImage
    \/ ImageSettled
    \/ Connect
    \/ ToggleIds
    \/ Clear
    \/ PanTo
    \/ PanBy
    \/ SetZoom
    \/ ZoomIn
    \/ ResetView

Spec == Init /\ [][Next]_vars

(***************************************************************************)
(* The interaction state machine's state, read off the session flags       *)
(***************************************************************************)
Connecting == draggingConnection # <<>>

\* the number of session flags that are set
ActiveSessions ==
    Cardinality({k \in 1..4 :
        <<isPanning, isDraggingNode, isResizingNode, Connecting>>[k]})

\* `!isDraggingNode && !isResizingNode && !isPanning && !draggingConnection`
Idle == ~isDraggingNode /\ ~isResizingNode /\ ~isPanning /\ ~Connecting

AtLeastMinimum(n) ==
    Ge(n.width, Whole(MIN_NODE_WIDTH)) /\ Ge(n.height, Whole(MIN_NODE_HEIGHT))

(***************************************************************************)
(* One resize gesture on a two-node board: the selected node (a square of  *)
(* 80, where a snap of its left or top edge keeps the minimum, of 60,      *)
(* where it does not, or of 10, below the minimum as an image node can be) *)
(* next to a static node whose left and top edges lie inside it, at three  *)
(* zooms.                                                                  *)
(***************************************************************************)
ResizeSizes == {80, 60, 10}
ResizeZooms == {Num(1, 2), Whole(1), Whole(2)}
ResizeMovePoints ==
    {<<135, 135>>, <<131, 131>>, <<65, 65>>, <<170, 170>>, <<30, 30>>, <<-500, 104>>}

GestureBudget == nEvents < MaxGesture

InitGesture(ns, z, selected) ==
    /\ nodes = ns
    /\ connections = <<>>
    /\ showConnections = TRUE
    /\ containerElement = TRUE
    /\ panX = Whole(0) /\ panY = Whole(0) /\ zoom = z
    /\ selectedNodeId = selected
    /\ pendingImages = <<>>
    /\ nextUuid = FirstUuid
    /\ InitSession

InitResize ==
    \E s \in ResizeSizes, z \in ResizeZooms :
        InitGesture(<< MkNode(1, "image", Whole(100), Whole(100), Whole(s), Whole(s), TRUE),
                       MkNode(2, "text", Whole(135), Whole(135), Whole(100), Whole(50),
                              TRUE) >>,
                    z, 1)

ResizePress ==
    GestureBudget /\ \E h \in resizeHandles :
        handlePointerDown(Target("resize", selectedNodeId, h), 100, 100)
ResizeMove ==
    GestureBudget /\ \E p \in ResizeMovePoints : handlePointerMove(TRUE, p[1], p[2])
ResizeRelease == GestureBudget /\ handlePointerUp(Target("container", NoNode, ""), 0)

NextResize == ResizePress \/ ResizeMove \/ ResizeRelease

SpecResize == InitResize /\ [][NextResize]_vars

(***************************************************************************)
(* One drag gesture on a two-node board: the static node spans x 100..200, *)
(* the selected node is dragged along x towards it, at zoom 1 and zoom 4.  *)
(***************************************************************************)
DragWidths == {60, 30}
DragZooms == {Whole(1), Whole(4)}
DragMovePoints ==
    {<<205, 300>>, <<208, 300>>, <<196, 300>>, <<103, 300>>, <<117, 300>>, <<-131, 300>>,
     <<205, 63>>}

InitDrag ==
    \E w \in DragWidths, z \in DragZooms :
        InitGesture(<< MkNode(1, "text", Whole(100), Whole(100), Whole(100), Whole(60),
                              TRUE),
                       MkNode(2, "text", Whole(300), Whole(400), Whole(w), Whole(40),
                              TRUE) >>,
                    z, 2)

DragPress == GestureBudget /\ handlePointerDown(Target("body", selectedNodeId, ""), 300, 300)
DragMove ==
    GestureBudget /\ \E p \in DragMovePoints : handlePointerMove(TRUE, p[1], p[2])
DragRelease == GestureBudget /\ handlePointerUp(Target("container", NoNode, ""), 0)

NextDrag == DragPress \/ DragMove \/ DragRelease

SpecDrag == InitDrag /\ [][NextDrag]_vars

(***************************************************************************)
(* The node and connection stores under the public operations: a board of  *)
(* four nodes of different sizes laid out two by two (a grid of exactly     *)
(* four cells) or the board of +page.svelte (a grid of three by two), with  *)
(* connect, addConnection, the connect gesture, arrange, add, toggle ids    *)
(* and clear.                                                              *)
(***************************************************************************)
MaxCalls == 3

ArrangePaddings == {Undefined, Whole(0), NaN}
BoardIds == {1, 2, MissingId}
BoardHandles == {"bottom", "top"}

SquareBoard ==
    << MkNode(1, "text", Whole(0), Whole(0), Whole(100), Whole(100), TRUE),
       MkNode(2, "text", Whole(200), Whole(0), Whole(100), Whole(80), TRUE),
       MkNode(3, "image", Whole(0), Whole(200), Whole(120), Whole(100), TRUE),
       MkNode(4, "text", Whole(200), Whole(200), Whole(100), Whole(100), TRUE) >>

Boards == {SquareBoard, InitialNodes}

CallBudget == nEvents < MaxCalls

InitBoard == \E ns \in Boards : InitGesture(ns, Whole(1), NoNode)

BoardConnect == CallBudget /\ \E a \in BoardIds, b \in BoardIds : connectNodesCommand(a, b)
BoardAddConnection ==
    CallBudget /\ \E a \in BoardIds, b \in BoardIds, fh \in BoardHandles :
                     addConnectionCall(a, b, fh, "top")
BoardConnectorPress ==
    CallBudget /\ \E t \in Targets : t.kind = "connector" /\ handlePointerDown(t, 100, 100)
BoardRelease ==
    CallBudget /\ \E t \in Targets :
                     t.kind \in {"connector", "container"} /\ handlePointerUp(t, 0)
BoardArrange == CallBudget /\ \E pad \in ArrangePaddings : autoArrangeNodes(pad)
BoardArrangeNothing == CallBudget /\ autoArrangeNothing
BoardAddText == CallBudget /\ addTextNode(0, 0)
BoardToggleIds == CallBudget /\ toggleIDHidden
BoardClear == CallBudget /\ clearNodes

NextBoard ==
    \/ BoardConnect
    \/ BoardAddConnection
    \/ BoardConnectorPress
    \/ BoardRelease
    \/ BoardArrange
    \/ BoardArrangeNothing
    \/ BoardAddText
    \/ BoardToggleIds
    \/ BoardClear

SpecBoard == InitBoard /\ [][NextBoard]_vars

(***************************************************************************)
(* Arrange on its own: the same boards, connected by the connect command   *)
(* in either direction between nodes 1 and 2, and arranged.                *)
(***************************************************************************)
MaxArrange == 3

ArrangeIds == {1, 2}

ArrangeBudget == nEvents < MaxArrange

ArrangeConnect ==
    ArrangeBudget /\ \E a \in ArrangeIds, b \in ArrangeIds : connectNodesCommand(a, b)
ArrangeCall == ArrangeBudget /\ \E pad \in ArrangePaddings : autoArrangeNodes(pad)

NextArrange == ArrangeConnect \/ ArrangeCall

SpecArrange == InitBoard /\ [][NextArrange]_vars

(***************************************************************************)
(* The viewport on its own: wheel events, the anchored setZoom, the zoom    *)
(* command and panBy, from viewports with a zoom inside the bounds.         *)
(***************************************************************************)
MaxViewSteps == 2

ViewZooms == {Num(1, 2), Whole(1), Whole(2)}
ViewPans == {<<0, 0>>, <<-37, 120>>}
ViewWheelDeltas == {-100, 1000, -5000}
ViewCursors == {<<50, 50>>, <<400, 300>>}
ViewLevels == {Num(1, 20), Whole(3), Whole(7)}
ViewAnchors == {<<0, 0>>, <<-30, 70>>}
StagePoints == {<<0, 0>>, <<-30, 70>>, <<125, 3>>}

ViewBudget == nEvents < MaxViewSteps

InitView ==
    \E z \in ViewZooms, p \in ViewPans :
        /\ nodes = InitialNodes
        /\ connections = <<>>
        /\ showConnections = TRUE
        /\ containerElement = TRUE
        /\ panX = Whole(p[1]) /\ panY = Whole(p[2]) /\ zoom = z
        /\ selectedNodeId = NoNode
        /\ pendingImages = <<>>
        /\ nextUuid = FirstUuid
        /\ InitSession

ViewWheel ==
    ViewBudget /\ \E d \in ViewWheelDeltas, c \in ViewCursors : handleWheel(d, c[1], c[2])
ViewSetZoom ==
    ViewBudget /\ \E level \in ViewLevels, a \in ViewAnchors :
                     whiteboardSetZoom(level, Whole(a[1]), Whole(a[2]))
ViewZoomCommand ==
    ViewBudget /\ \E direction \in {"in", "out"} : zoomCommand(direction, Num(12, 10))
ViewPanBy == ViewBudget /\ panBy(15, -40)

NextView == ViewWheel \/ ViewSetZoom \/ ViewZoomCommand \/ ViewPanBy

SpecView == InitView /\ [][NextView]_vars

(***************************************************************************)
(* The public operations around the binding of the container element: the  *)
(* component starts with no container (nothing is measured), the commands  *)
(* may be called before and after the element is bound.                    *)
(***************************************************************************)
MaxApi == 4

ApiPanTargets == {<<0, 0>>, <<120, -45>>}
ApiZoomTargets == {Num(1, 2), Whole(3)}

ApiBudget == nEvents < MaxApi

InitApi ==
    /\ nodes = InitialNodes
    /\ connections = <<>>
    /\ showConnections = TRUE
    /\ containerElement = FALSE
    /\ panX = Whole(0) /\ panY = Whole(0) /\ zoom = Whole(1)
    /\ selectedNodeId = NoNode
    /\ pendingImages = <<>>
    /\ nextUuid = FirstUuid
    /\ InitSession

\* `bind:this={containerElement}` takes effect: the surface can be measured
BindContainer ==
    /\ ~containerElement
    /\ containerElement' = TRUE
    /\ UNCHANGED <<storeVars, viewVars, panVars, dragVars, resizeVars, selectedNodeId,
                   activeSnapLines, draggingConnection, threw, requests, nEvents>>

ApiPanTo == ApiBudget /\ \E t \in ApiPanTargets : panTo(t[1], t[2])
ApiPanBy == ApiBudget /\ panBy(15, -40)
ApiSetZoom == ApiBudget /\ \E z \in ApiZoomTargets : setZoom(z)
ApiResetView == ApiBudget /\ resetView
ApiAddText == ApiBudget /\ addTextNode(0, 0)
ApiAddImage == ApiBudget /\ Len(pendingImages) < MaxPending /\ addImageNode
ApiImageSettled ==
    ApiBudget /\ \E p \in 1..Len(pendingImages) : addTheNode(p, 0, 0, 0, 0)

NextApi ==
    \/ BindContainer
    \/ ApiPanTo
    \/ ApiPanBy
    \/ ApiSetZoom
    \/ ApiResetView
    \/ ApiAddText
    \/ ApiAddImage
    \/ ApiImageSettled

SpecApi == InitApi /\ [][NextApi]_vars

(***************************************************************************)
(* Presses on the board of +page.svelte, with no node or with node 1 or 3  *)
(* selected, at two zooms: a short run of pointer-downs on every element,  *)
(* pointer-moves and pointer-ups.                                          *)
(***************************************************************************)
MaxPress == 2

PressSelections == {NoNode, 1, 3}
PressZooms == {Whole(1), Whole(2)}

PressBudget == nEvents < MaxPress

InitPress ==
    \E selected \in PressSelections, z \in PressZooms :
        InitGesture(InitialNodes, z, selected)

PressDown ==
    PressBudget /\ \E t \in Targets, p \in DownPoints : handlePointerDown(t, p[1], p[2])
PressMove ==
    PressBudget /\ \E p \in MovePoints : handlePointerMove(TRUE, p[1], p[2])
PressUp == PressBudget /\ \E t \in Background, b \in Buttons : handlePointerUp(t, b)

NextPress == PressDown \/ PressMove \/ PressUp

SpecPress == InitPress /\ [][NextPress]_vars

(***************************************************************************)
(* Claims                                                                  *)
(***************************************************************************)

\* C1: in every state reachable by pointer-down, -move, -up, -leave and wheel
\* events (any button, any hit target) interleaved with API calls, at most
\* one of the four session flags (panning, dragging a node, resizing a node,
\* connecting) is set.
C1_AtMostOneSession == ActiveSessions <= 1

\* C2: every pointer-up received while a session is active leaves all session
\* flags cleared (the machine is Idle), for every value of the event's button.
C2_PointerUpReturnsToIdle == [][(~Idle /\ PointerUp) => Idle']_vars

\* C3: a pointer-leave received while a session is active ends it as a
\* pointer-up would: afterwards the machine is Idle and the guide-line list is
\* empty.
C3_PointerLeaveEndsSession ==
    [][(~Idle /\ PointerLeave) => (Idle' /\ activeSnapLines' = <<>>)]_vars

\* C4: a pointer-down on the empty background (container or stage) while Idle
\* enters Panning, records the start pan offset and leaves the selection
\* empty, whether or not a node was selected before.
C4_BackgroundPressStartsPanning ==
    [][\A t \in Background, p \in DownPoints :
          (Idle /\ Budget /\ handlePointerDown(t, p[1], p[2]))
          => /\ isPanning' /\ ActiveSessions' = 1
             /\ startPanX' = Sub(Whole(p[1]), panX)
             /\ startPanY' = Sub(Whole(p[2]), panY)
             /\ selectedNodeId' = NoNode]_vars

C6_ConnectionReleaseEmitsAndIdles ==
    [][/\ \A t \in Targets, b \in Buttons :
             (Connecting /\ Budget /\ handlePointerUp(t, b) /\ ~Connecting')
             => /\ Idle'
                /\ IF t.kind = "connector"
                      /\ t.nodeId # draggingConnection[1].startNodeId
                   THEN requests' =
                          Append(requests,
                                 [from |-> draggingConnection[1].startNodeId,
                                  to |-> t.nodeId])
                   ELSE requests' = requests /\ connections' = connections
       /\ (Connecting /\ PointerLeave /\ ~Connecting')
             => (Idle' /\ requests' = requests /\ connections' = connections)]_vars

C8_ResizeKeepsMinimum ==
    (/\ isResizingNode
     /\ Ge(nodeInitialWidth, Whole(MIN_NODE_WIDTH))
     /\ Ge(nodeInitialHeight, Whole(MIN_NODE_HEIGHT)))
    => \A i \in 1..Len(nodes) :
          nodes[i].id = resizingNodeId => AtLeastMinimum(nodes[i])

\* a resize move from the left handle was clamped to the minimum width, the
\* snap to the static node's edge 5 units away being rejected
C8_ClampedWithoutSnap ==
    /\ isResizingNode /\ activeResizeHandle = "l" /\ nEvents >= 2
    /\ Lt(Whole(MIN_NODE_WIDTH), nodeInitialWidth)
    /\ \E i \in 1..Len(nodes) :
          /\ nodes[i].id = resizingNodeId
          /\ nodes[i].width = Whole(MIN_NODE_WIDTH)
          /\ nodes[i].x = Sub(Add(nodeInitialX, nodeInitialWidth), Whole(MIN_NODE_WIDTH))
    /\ activeSnapLines = <<>>

\* C9: every pointer-move received while a node is being dragged leaves the
\* dragged node's width and height unchanged.
C9_DragMoveKeepsSize ==
    [][\A i \in 1..Len(nodes) :
          (isDraggingNode /\ nodes[i].id = draggedNodeId /\ PointerMove)
          => /\ nodes'[i].width = nodes[i].width
             /\ nodes'[i].height = nodes[i].height]_vars

\* C10: with two nodes, a drag move whose tentative left edge is within 8 of
\* the static node's right edge commits the left edge exactly on that right
\* edge, and a drag move whose tentative left edge is more than 8 away from
\* it commits the exact tentative x.
C10_SnapsIffLeftNearRight ==
    [][\A p \in DragMovePoints :
          (/\ isDraggingNode /\ Len(nodes) = 2 /\ draggedNodeId = nodes[2].id
           /\ GestureBudget /\ handlePointerMove(TRUE, p[1], p[2]))
          => LET tentativeX == Add(nodeStartDragX,
                                   Div(Whole(p[1] - dragStartX), zoom))
                 rightEdge == StaticNodePoints(nodes[1], "x")[3]
                 distance == MathAbs(Sub(tentativeX, rightEdge))
             IN  /\ Lt(distance, Whole(SNAP_THRESHOLD_STAGE))
                       => nodes'[2].x = rightEdge
                 /\ Lt(Whole(SNAP_THRESHOLD_STAGE), distance)
                       => nodes'[2].x = tentativeX]_vars

\* C10, amended: with two nodes, when the tentative left edge is strictly
\* less than 8 from the static right edge and that pair is strictly the
\* closest of the nine (left, centre, right) x (left, centre, right) pairs,
\* the committed left edge is exactly the static right edge; when every one
\* of the nine pairs is 8 or more apart, the exact tentative x is committed.
C10_SnapsToClosestPairBelowThreshold ==
    [][\A p \in DragMovePoints :
          (/\ isDraggingNode /\ Len(nodes) = 2 /\ draggedNodeId = nodes[2].id
           /\ GestureBudget /\ handlePointerMove(TRUE, p[1], p[2]))
          => LET tentativeX == Add(nodeStartDragX,
                                   Div(Whole(p[1] - dragStartX), zoom))
                 static == StaticNodePoints(nodes[1], "x")
                 active == ActiveNodePoints(tentativeX, nodes[2].width)
                 distance(q) == MathAbs(Sub(active[q[1]].currentVal, static[q[2]]))
                 pairs == (1..3) \X (1..3)
                 threshold == Whole(SNAP_THRESHOLD_STAGE)
             IN  /\ (/\ Lt(distance(<<1, 3>>), threshold)
                     /\ \A q \in pairs \ {<<1, 3>>} :
                           Lt(distance(<<1, 3>>), distance(q)))
                       => nodes'[2].x = static[3]
                 /\ (\A q \in pairs : Ge(distance(q), threshold))
                       => nodes'[2].x = tentativeX]_vars

\* a drag move left the dragged node's left edge on the static node's right
\* edge, with the vertical guide line there
C10_SnappedLeftToRight ==
    /\ isDraggingNode /\ Len(nodes) = 2 /\ draggedNodeId = nodes[2].id
    /\ nodes[2].x = Add(nodes[1].x, nodes[1].width)
    /\ nodes[2].x # nodeStartDragX
    /\ \E l \in 1..Len(activeSnapLines) :
          activeSnapLines[l].type = "v" /\ activeSnapLines[l].stageValue = nodes[2].x

\* C11: addConnection leaves the connection store unchanged (it returns null)
\* when fromId equals toId, when either id is not in the node store, or when
\* a connection with the same from node+handle and to node+handle exists; and
\* no reachable connection store holds a self-loop or two connections with
\* identical endpoints.
SameEndpoints(c, d) == c.from = d.from /\ c.to = d.to

C11_AddConnectionRejectsInvalid ==
    /\ [](/\ \A c \in 1..Len(connections) :
               connections[c].from.nodeId # connections[c].to.nodeId
          /\ \A c \in 1..Len(connections), d \in 1..Len(connections) :
               SameEndpoints(connections[c], connections[d]) => c = d)
    /\ [][\A a \in BoardIds, b \in BoardIds, fh \in BoardHandles :
             (/\ CallBudget /\ addConnectionCall(a, b, fh, "top")
              /\ \/ a = b
                 \/ a \notin NodeIds(nodes) \/ b \notin NodeIds(nodes)
                 \/ \E c \in 1..Len(connections) :
                       /\ connections[c].from = [nodeId |-> a, handle |-> fh]
                       /\ connections[c].to = [nodeId |-> b, handle |-> "top"])
             => (connections' = connections /\ nextUuid' = nextUuid)]_vars

\* one call in the run was a connect or an addConnection that was rejected,
\* the others each added a connection
C11_OneCallRejected ==
    /\ nodes \in Boards /\ panX = Whole(0)
    /\ Len(connections) >= 1
    /\ nEvents = Len(connections) + 1
    /\ requests = <<>> /\ draggingConnection = <<>>

\* C12: in every state reachable through the public operations, both
\* endpoint node ids of every stored connection are ids of nodes in the node
\* store.
C12_EndpointsAreStoredNodes ==
    \A c \in 1..Len(connections) :
        /\ connections[c].from.nodeId \in NodeIds(nodes)
        /\ connections[c].to.nodeId \in NodeIds(nodes)

\* connections are stored on a board that a node was added to
C12_ConnectedBoardGrew ==
    /\ Len(connections) >= 1
    /\ Len(nodes) > 4

\* two node rectangles overlap: they share an area, a shared edge is none
Overlap(n, m) ==
    /\ Lt(n.x, Add(m.x, m.width)) /\ Lt(m.x, Add(n.x, n.width))
    /\ Lt(n.y, Add(m.y, m.height)) /\ Lt(m.y, Add(n.y, n.height))

\* every node has a grid cell and no two nodes have the same one
EveryNodeItsOwnCell(pos) ==
    /\ \A id \in DOMAIN pos : pos[id] # <<>>
    /\ \A id \in DOMAIN pos, other \in DOMAIN pos : pos[id] = pos[other] => id = other

HasNaNPosition(ns) == \E i \in 1..Len(ns) : isNaN(ns[i].x) \/ isNaN(ns[i].y)

\* C13: after arrange with a padding >= 0, for any nodes (at positions that
\* are numbers) and any connection list addConnection accepted, every node
\* is assigned its own grid cell and no two node rectangles overlap.
C13_ArrangeGivesEveryNodeItsOwnCell ==
    [][\A pad \in ArrangePaddings :
          (/\ Le(Whole(0), ParsePadding(pad)) /\ ~HasNaNPosition(nodes)
           /\ ArrangeBudget /\ autoArrangeNodes(pad))
          => \A out \in ArrangeOutcomes(nodes, connections, ParsePadding(pad)) :
                nodes' = out.nodes
                => /\ EveryNodeItsOwnCell(out.pos)
                   /\ \A i \in 1..Len(nodes'), j \in 1..Len(nodes') :
                         i # j => ~Overlap(nodes'[i], nodes'[j])]_vars

\* C14: arrange never changes the number of nodes or of connections; of the
\* node fields only x and y change, the order of the list is kept and the
\* connection list is unchanged.
C14_ArrangeChangesPositionsOnly ==
    [][\A pad \in ArrangePaddings :
          (ArrangeBudget /\ autoArrangeNodes(pad))
          => /\ Len(nodes') = Len(nodes)
             /\ connections' = connections
             /\ \A i \in 1..Len(nodes) :
                   nodes'[i] = [nodes[i] EXCEPT !.x = nodes'[i].x, !.y = nodes'[i].y]]_vars

\* a connected board after arrange with the default padding: a node stands
\* in the first cell, at (60, 60)
C14_ArrangedConnectedBoard ==
    /\ Len(nodes) = 4 /\ Len(connections) >= 1
    /\ \E i \in 1..Len(nodes) : nodes[i].x = Whole(60) /\ nodes[i].y = Whole(60)

\* C15: arrange with a padding that does not parse to a number substitutes
\* the default, so NaN never reaches a node coordinate or the viewport.
C15_NaNNeverReachesTheBoard ==
    /\ ~HasNaNPosition(nodes)
    /\ ~isNaN(panX) /\ ~isNaN(panY)

\* C16: with the default bounds, in every state reachable by setZoom calls,
\* wheel events and zoom commands, minZoom <= zoom <= maxZoom.
C16_ZoomWithinBounds == Le(minZoom, zoom) /\ Le(zoom, maxZoom)

\* two zoom steps about the stage origin ended at the upper bound
C16_ClampedAtUpperBound ==
    /\ zoom = maxZoom /\ nEvents = 2
    /\ panX = Whole(0) /\ panY = Whole(0)

C18_WheelZoomsAboutTheCursor ==
    [][\A d \in ViewWheelDeltas, c \in ViewCursors :
          (ViewBudget /\ handleWheel(d, c[1], c[2]))
          => LET under == screenToStageCoordinates(Whole(c[1]), Whole(c[2])) IN
             /\ zoom' = MathMax(minZoom,
                          MathMin(maxZoom,
                             Mul(zoom, Sub(Whole(1), Mul(Whole(d), zoomSensitivity)))))
             /\ Add(Mul(under.x, zoom'), panX') = Whole(c[1])
             /\ Add(Mul(under.y, zoom'), panY') = Whole(c[2])]_vars

\* a wheel event at (50, 50) from zoom 1 and pan (0, 0) whose zoom was
\* clamped to the lower bound
C18_WheelClampedAtCursor ==
    /\ zoom = minZoom /\ nEvents = 1
    /\ panX = Whole(45) /\ panY = Whole(45)

\* C19: from zoom 1.0 and pan (0, 0), a wheel event with deltaY = -100,
\* sensitivity 0.002 and the cursor at (50, 50) gives a zoom of about 1.2214.
C19_WheelGivesAbout12214 ==
    [][(/\ zoom = Whole(1) /\ panX = Whole(0) /\ panY = Whole(0)
        /\ zoomSensitivity = Num(2, 1000)
        /\ ViewBudget /\ handleWheel(-100, 50, 50))
       => Lt(MathAbs(Sub(zoom', Num(12214, 10000))), Num(1, 1000))]_vars

\* C19, amended: from zoom 1.0 and pan (0, 0), a wheel event with
\* deltaY = -100, sensitivity 0.002 and the cursor at (50, 50) gives the zoom
\* 1 * (1 + 100 * 0.002) = 1.2 and the pan (-10, -10), so the stage point
\* (50, 50) under the cursor is at screen (50, 50) again.
C19_WheelGivesExactly12 ==
    [][(/\ zoom = Whole(1) /\ panX = Whole(0) /\ panY = Whole(0)
        /\ ViewBudget /\ handleWheel(-100, 50, 50))
       => /\ zoom' = Num(12, 10)
          /\ panX' = Whole(-10) /\ panY' = Whole(-10)
          /\ stageToScreenCoordinates(Whole(50), Whole(50))'
                = [x |-> Whole(50), y |-> Whole(50)]]_vars

\* the state after that wheel event
C19_AfterTheWheelEvent ==
    /\ nEvents = 1
    /\ zoom = Num(12, 10) /\ panX = Whole(-10) /\ panY = Whole(-10)

\* C20: for every stage point p and every viewport with a zoom within the
\* bounds, screenToStage(stageToScreen(p)) = p.
C20_StageScreenRoundTrip ==
    \A p \in StagePoints :
        LET screen == stageToScreenCoordinates(Whole(p[1]), Whole(p[2])) IN
        screenToStageCoordinates(screen.x, screen.y) = [x |-> Whole(p[1]), y |-> Whole(p[2])]

\* a viewport with a fractional zoom and a pan off the origin, where the
\* screen position of a stage point differs from the point
C20_ZoomedAndPannedViewport ==
    /\ zoom = Num(3, 5) /\ panX # Whole(0) /\ panY # Whole(0)
    /\ stageToScreenCoordinates(Whole(125), Whole(3)) # [x |-> Whole(125), y |-> Whole(3)]

ScreenCentre == [x |-> Half(Whole(clientWidth)), y |-> Half(Whole(clientHeight))]

\* C21: after panTo(x, y) on a measured surface of size W x H the screen
\* position of the stage point (x, y) is (W/2, H/2) and the zoom is what it
\* was, for each pan and zoom before the call.
C21_PanToCentresTheTarget ==
    [][\A t \in ApiPanTargets :
          (containerElement /\ ApiBudget /\ panTo(t[1], t[2]))
          => /\ stageToScreenCoordinates(Whole(t[1]), Whole(t[2]))' = ScreenCentre
             /\ zoom' = zoom]_vars

\* panTo(120, -45) at zoom 3 on the measured surface
C21_PannedToOffOriginTarget ==
    /\ containerElement /\ zoom = Whole(3)
    /\ panX = Whole(40) /\ panY = Whole(435)

\* C22: after resetView on a measured surface the zoom is 1, the stage
\* origin is at the centre of the viewport, and a second resetView would
\* change nothing.
C22_ResetViewCentresOriginAtZoomOne ==
    [][(containerElement /\ ApiBudget /\ resetView)
       => /\ zoom' = Whole(1)
          /\ stageToScreenCoordinates(Whole(0), Whole(0))' = ScreenCentre
          /\ LET p == panToResult(panX', panY', zoom', Whole(0), Whole(0)) IN
             setZoomResult(p[1], p[2], zoom', Whole(1)) = <<panX', panY', zoom'>>]_vars

\* the view stands reset on the measured surface at the end of a run of
\* three calls or more
C22_ResetAfterZoomAndPan ==
    /\ containerElement /\ nEvents >= 3
    /\ zoom = Whole(1) /\ panX = ScreenCentre.x /\ panY = ScreenCentre.y

\* C23: after clear the node store and the connection store are both
\* empty, whatever they held before, and pan and zoom are what they were.
C23_ClearEmptiesBothStores ==
    [][Clear => /\ nodes' = <<>> /\ connections' = <<>>
                /\ UNCHANGED viewVars]_vars

\* both stores are empty after a connection had been stored, in a view that
\* was panned
C23_ClearedConnectedBoard ==
    /\ nodes = <<>> /\ connections = <<>>
    /\ nextUuid > FirstUuid /\ pendingImages = <<>>
    /\ panX # Whole(0)

\* C24: no pointer, wheel or API operation ends in a thrown error; in
\* particular every pointer-move of a resize session, for each of the 8
\* handles, also when it snaps on the Y axis only, completes and commits the
\* node's geometry.
C24_NoOperationThrows == ~threw

\* C25: while a drag or resize session is active the node list is written
\* only by the handling of that session's pointer-moves: no command (clear,
\* arrange, toggle ids, add text) and no completion of a pending image load
\* changes it between the press and the release.
C25_OnlyTheSessionWritesNodes ==
    [][((isDraggingNode \/ isResizingNode) /\ nodes' # nodes) => PointerMove]_vars

\* C26: while the container element is not bound (nothing is measured)
\* getStageCoordinatesForScreenCenter returns null, the add-text and the
\* add-image command add no node (and start no image load), and panTo leaves
\* pan and zoom as they were.
C26_UnmeasuredSurfaceIsLeftAlone ==
    /\ [](~containerElement => getStageCoordinatesForScreenCenter = <<>>)
    /\ [][(~containerElement /\ (ApiAddText \/ ApiAddImage))
             => (nodes' = nodes /\ pendingImages' = pendingImages)]_vars
    /\ [][\A t \in ApiPanTargets :
             (~containerElement /\ ApiBudget /\ panTo(t[1], t[2]))
             => UNCHANGED viewVars]_vars

\* calls were made before the container was bound, none of them panBy or a
\* zoom away from 1: the board and the view are as constructed
C26_CalledBeforeBinding ==
    /\ ~containerElement /\ nEvents >= 2
    /\ nodes = InitialNodes /\ pendingImages = <<>>
    /\ panX = Whole(0) /\ panY = Whole(0) /\ zoom = Whole(1)

\* C27: a pointer-down on a connector handle of any node, selected or not,
\* always starts a connecting session that records that node, the handle and
\* the handle's stage position; it starts no drag and no resize and changes
\* neither the selection nor any node.
C27_ConnectorPressStartsConnecting ==
    [][\A t \in {Target("connector", nodes[i].id, h) :
                     i \in 1..Len(nodes), h \in PressedConnectors},
          p \in DownPoints :
          (PressBudget /\ handlePointerDown(t, p[1], p[2]))
          => /\ Connecting'
             /\ draggingConnection'[1].startNodeId = t.nodeId
             /\ draggingConnection'[1].startHandle = t.handle
             /\ LET node == nodes[FindNode(nodes, t.nodeId)]
                    halfW == Half(node.width)
                    halfH == Half(node.height)
                    offset == Whole(CONNECTOR_HANDLE_OFFSET)
                IN  <<draggingConnection'[1].startXStage, draggingConnection'[1].startYStage>>
                    = CASE t.handle = "top" ->
                               <<Sub(Add(node.x, halfW), offset), node.y>>
                        [] t.handle = "bottom" ->
                               <<Add(Add(node.x, halfW), offset), Add(node.y, node.height)>>
                        [] t.handle = "left" ->
                               <<node.x, Sub(Add(node.y, halfH), offset)>>
                        [] t.handle = "right" ->
                               <<Add(node.x, node.width), Add(Add(node.y, halfH), offset)>>
             /\ UNCHANGED <<dragVars, resizeVars, selectedNodeId, nodes>>]_vars

\* a connecting session started by the first press, from the left handle of
\* the selected node, and no other session with it
C27_ConnectingFromSelectedNode ==
    /\ Connecting /\ ActiveSessions = 1 /\ nEvents = 1
    /\ selectedNodeId # NoNode
    /\ draggingConnection[1].startNodeId = selectedNodeId
    /\ draggingConnection[1].startHandle = "left"

\* C28: in every reachable state in which the machine is Idle the guide-line
\* list is empty; it is empty immediately after every wheel event; and it is
\* non-empty only while a drag or a resize session is active.
C28_GuideLinesOnlyInSessions ==
    /\ [](Idle => activeSnapLines = <<>>)
    /\ [](activeSnapLines # <<>> => (isDraggingNode \/ isResizingNode))
    /\ [][Wheel => activeSnapLines' = <<>>]_vars

\* the machine is Idle with no guide line after the drag of node 1 that had
\* snapped its centre to y = 0, with the horizontal guide line there
C28_IdleAfterSnappedDrag ==
    /\ Idle /\ activeSnapLines = <<>>
    /\ Len(nodes) = 4 /\ nodes[1].id = 1
    /\ nodes[1].x = Whole(-300) /\ nodes[1].y = Whole(-90)

\* C29: during a resize session, after every pointer-move (clamped, snapped
\* or neither), the edge opposite the active handle is where it was when the
\* session started: x + width is the starting right edge for the handles
\* with 'l', x the starting x for those with 'r', y + height the starting
\* bottom edge for those with 't', y the starting y for those with 'b'; the
\* handles t and b leave x and width, l and r leave y and height unchanged.
C29_OppositeEdgeStaysFixed ==
    isResizingNode
    => \A i \in 1..Len(nodes) :
          nodes[i].id = resizingNodeId
          => LET n == nodes[i]
                 handle == activeResizeHandle
             IN  /\ Includes(handle, "l")
                       => Add(n.x, n.width) = Add(nodeInitialX, nodeInitialWidth)
                 /\ Includes(handle, "r") => n.x = nodeInitialX
                 /\ Includes(handle, "t")
                       => Add(n.y, n.height) = Add(nodeInitialY, nodeInitialHeight)
                 /\ Includes(handle, "b") => n.y = nodeInitialY
                 /\ handle \in {"t", "b"}
                       => (n.x = nodeInitialX /\ n.width = nodeInitialWidth)
                 /\ handle \in {"l", "r"}
                       => (n.y = nodeInitialY /\ n.height = nodeInitialHeight)

\* a move of the top-left handle snapped both moving edges to the static
\* node: two guide lines, and the node is smaller than it was at the press
C29_TopLeftSnappedOnBothAxes ==
    /\ isResizingNode /\ activeResizeHandle = "tl"
    /\ Len(activeSnapLines) = 2
    /\ \E i \in 1..Len(nodes) :
          /\ nodes[i].id = resizingNodeId
          /\ nodes[i].x = Whole(135) /\ nodes[i].y = Whole(135)
          /\ Lt(nodes[i].width, nodeInitialWidth)

\* C30: in a resize move, when the snap of the moving edge to the nearest
\* reference within the threshold would make the width (or the height)
\* smaller than the minimum, the snap is rejected for that axis: the
\* committed geometry on that axis is the unsnapped tentative geometry and no
\* guide line is emitted for that axis, while the other axis is snapped as
\* usual (its moving edge on its reference, with its guide line).
C30_SnapBelowMinimumRejectedPerAxis ==
    [][\A p \in ResizeMovePoints :
          (isResizingNode /\ GestureBudget /\ handlePointerMove(TRUE, p[1], p[2]))
          => LET handle == activeResizeHandle
                 t == ResizeTentative(handle,
                          Div(Whole(p[1] - resizeStartMouseX), zoom),
                          Div(Whole(p[2] - resizeStartMouseY), zoom))
                 n == nodes'[FindNode(nodes, resizingNodeId)]
                 sx == IF Includes(handle, "l")
                       THEN ResizeSnapScan(nodes, resizingNodeId, t.x, "x")
                       ELSE IF Includes(handle, "r")
                       THEN ResizeSnapScan(nodes, resizingNodeId, Add(t.x, t.width), "x")
                       ELSE NoSnap
                 sy == IF Includes(handle, "t")
                       THEN ResizeSnapScan(nodes, resizingNodeId, t.y, "y")
                       ELSE IF Includes(handle, "b")
                       THEN ResizeSnapScan(nodes, resizingNodeId, Add(t.y, t.height), "y")
                       ELSE NoSnap
                 snappedWidth == IF Includes(handle, "l")
                                 THEN Sub(Add(t.x, t.width), sx.target[1])
                                 ELSE Sub(sx.target[1], t.x)
                 snappedHeight == IF Includes(handle, "t")
                                  THEN Sub(Add(t.y, t.height), sy.target[1])
                                  ELSE Sub(sy.target[1], t.y)
                 foundX == sx.target # <<>>
                 foundY == sy.target # <<>>
                 rejectedX == foundX /\ Lt(snappedWidth, Whole(MIN_NODE_WIDTH))
                 rejectedY == foundY /\ Lt(snappedHeight, Whole(MIN_NODE_HEIGHT))
                 lineAt(type, value) ==
                     \E l \in 1..Len(activeSnapLines') :
                        /\ activeSnapLines'[l].type = type
                        /\ activeSnapLines'[l].stageValue = value
                 noLine(type) ==
                     \A l \in 1..Len(activeSnapLines') : activeSnapLines'[l].type # type
             IN  /\ rejectedX
                       => /\ n.x = t.x /\ n.width = t.width /\ noLine("v")
                          /\ (foundY /\ ~rejectedY)
                                => /\ n.height = snappedHeight
                                   /\ n.y = IF Includes(handle, "t") THEN sy.target[1]
                                             ELSE t.y
                                   /\ lineAt("h", sy.target[1])
                 /\ rejectedY
                       => /\ n.y = t.y /\ n.height = t.height /\ noLine("h")
                          /\ (foundX /\ ~rejectedX)
                                => /\ n.width = snappedWidth
                                   /\ n.x = IF Includes(handle, "l") THEN sx.target[1]
                                             ELSE t.x
                                   /\ lineAt("v", sx.target[1])]_vars

\* a move of the bottom-left handle of the 60 x 60 node: the snap of the left
\* edge to 135 was rejected (the width would be 25), the node keeps the
\* clamped tentative x = 130 and width = 30, and the bottom edge was snapped
\* to 185, with the horizontal guide line as the only one
C30_LeftRejectedBottomSnapped ==
    /\ isResizingNode /\ activeResizeHandle = "bl"
    /\ nodeInitialWidth = Whole(60)
    /\ Len(activeSnapLines) = 1
    /\ activeSnapLines[1].type = "h" /\ activeSnapLines[1].stageValue = Whole(185)
    /\ \E i \in 1..Len(nodes) :
          /\ nodes[i].id = resizingNodeId
          /\ nodes[i].x = Whole(130) /\ nodes[i].width = Whole(30)
          /\ nodes[i].y = Whole(100) /\ nodes[i].height = Whole(85)

\* C31: within one drag session the node's position after a pointer-move
\* depends only on the position recorded at drag start, the pointer position
\* at the press, the current pointer position, the current zoom and the
\* other nodes, not on the moves in between: the move gives what it would
\* give with the node still at its start position, and on an axis without a
\* snap the coordinate is start position + (pointer delta / zoom).
C31_DragPositionIgnoresEarlierMoves ==
    [][\A p \in DragMovePoints :
          (/\ isDraggingNode /\ FindNode(nodes, draggedNodeId) # 0
           /\ GestureBudget /\ handlePointerMove(TRUE, p[1], p[2]))
          => LET i == FindNode(nodes, draggedNodeId)
                 tentativeX == Add(nodeStartDragX, Div(Whole(p[1] - dragStartX), zoom))
                 tentativeY == Add(nodeStartDragY, Div(Whole(p[2] - dragStartY), zoom))
                 atStart == ApplyPosition(nodes, draggedNodeId,
                                          nodeStartDragX, nodeStartDragY)
                 fromStart == calculateAndApplySnapsForDrag(atStart, draggedNodeId,
                                                           tentativeX, tentativeY)
                 snapped(type) ==
                     \E l \in 1..Len(activeSnapLines') : activeSnapLines'[l].type = type
             IN  /\ nodes'[i].x = fromStart.newX
                 /\ nodes'[i].y = fromStart.newY
                 /\ ~snapped("v") => nodes'[i].x = tentativeX
                 /\ ~snapped("h") => nodes'[i].y = tentativeY]_vars

\* the third event of a drag gesture was a move that left the node,
\* unsnapped, at its start position plus the pointer delta of -92
C31_SecondMoveAfterSnap ==
    /\ isDraggingNode /\ nEvents = 3 /\ zoom = Whole(1)
    /\ activeSnapLines = <<>>
    /\ nodes[2].x = Add(nodeStartDragX, Whole(-92))

\* the committed coordinate of a drag move on one axis, given the tentative
\* one: the tentative coordinate when no pair (left/centre/right of the
\* active node, left/centre/right of another node) is closer than the
\* threshold, else the tentative coordinate shifted, by less than the
\* threshold, so that a pair of minimum distance coincides
CommitsClosestPair(ns, i, axis, tentative, committed) ==
    LET active == ActiveNodePoints(tentative, Size(ns[i], axis))
        pairs == (1..3) \X ((1..Len(ns)) \ {i}) \X (1..3)
        static(q) == StaticNodePoints(ns[q[2]], axis)[q[3]]
        distance(q) == MathAbs(Sub(active[q[1]].currentVal, static(q)))
        threshold == Whole(SNAP_THRESHOLD_STAGE)
    IN  IF \A q \in pairs : ~Lt(distance(q), threshold)
        THEN committed = tentative
        ELSE /\ \E q \in pairs :
                  /\ \A r \in pairs : Le(distance(q), distance(r))
                  /\ committed = Add(tentative, Sub(static(q), active[q[1]].currentVal))
             /\ Lt(MathAbs(Sub(committed, tentative)), threshold)

\* the nodes with the geometry of one axis wiped out
WithoutAxis(ns, axis) ==
    [i \in 1..Len(ns) |->
        IF axis = "x" THEN [ns[i] EXCEPT !.x = Whole(0), !.width = Whole(1)]
        ELSE [ns[i] EXCEPT !.y = Whole(0), !.height = Whole(1)]]

\* C32: for a drag move and each axis separately, the committed coordinate
\* is the tentative one when no pair of an active and an other-node point
\* (left, centre, right) is closer than the threshold, and otherwise the
\* tentative one shifted so that the pair of minimum distance coincides; the
\* shift is smaller than the threshold, and the X result does not depend on
\* any node's y or height, nor the Y result on any x or width.
C32_DragSnapsClosestPairPerAxis ==
    [][\A p \in DragMovePoints :
          (/\ isDraggingNode /\ FindNode(nodes, draggedNodeId) # 0
           /\ GestureBudget /\ handlePointerMove(TRUE, p[1], p[2]))
          => LET i == FindNode(nodes, draggedNodeId)
                 tentativeX == Add(nodeStartDragX, Div(Whole(p[1] - dragStartX), zoom))
                 tentativeY == Add(nodeStartDragY, Div(Whole(p[2] - dragStartY), zoom))
             IN  /\ CommitsClosestPair(nodes, i, "x", tentativeX, nodes'[i].x)
                 /\ CommitsClosestPair(nodes, i, "y", tentativeY, nodes'[i].y)
                 /\ nodes'[i].x =
                       calculateAndApplySnapsForDrag(WithoutAxis(nodes, "y"),
                           draggedNodeId, tentativeX, tentativeY).newX
                 /\ nodes'[i].y =
                       calculateAndApplySnapsForDrag(WithoutAxis(nodes, "x"),
                           draggedNodeId, tentativeX, tentativeY).newY]_vars

\* a drag move snapped the node on both axes at once: its left edge on the
\* other node's right edge 200 and its top edge on the other node's bottom
\* edge 160
C32_SnappedOnBothAxes ==
    /\ isDraggingNode /\ Len(activeSnapLines) = 2
    /\ nodes[2].x = Whole(200) /\ nodes[2].y = Whole(160)

\* the guide lines of one axis after a move: none when the axis did not snap
\* (snap.target is empty), else exactly one, at the reference coordinate and
\* spanning the active node's final extent [lo, lo + size] and the extent of
\* the node that supplied the reference, both on the perpendicular axis
OneGuideLine(lines, type, snap, ns, lo, size, perpendicular) ==
    LET ofType == {l \in 1..Len(lines) : lines[l].type = type} IN
    IF snap.target = <<>>
    THEN ofType = {}
    ELSE /\ Cardinality(ofType) = 1
         /\ \A l \in ofType :
              /\ lines[l].stageValue = snap.target[1]
              /\ lines[l].start = MathMin(lo, Pos(ns[snap.source], perpendicular))
              /\ lines[l].end =
                    MathMax(Add(lo, size),
                            Add(Pos(ns[snap.source], perpendicular),
                                Size(ns[snap.source], perpendicular)))

\* the part of C33 about drag moves
DragMoveEmitsOneLinePerSnappedAxis ==
    \A p \in DragMovePoints :
        (/\ isDraggingNode /\ FindNode(nodes, draggedNodeId) # 0
         /\ GestureBudget /\ handlePointerMove(TRUE, p[1], p[2]))
        => LET i == FindNode(nodes, draggedNodeId)
               tentativeX == Add(nodeStartDragX, Div(Whole(p[1] - dragStartX), zoom))
               tentativeY == Add(nodeStartDragY, Div(Whole(p[2] - dragStartY), zoom))
               sx == DragSnapAxis(nodes, draggedNodeId, tentativeX, nodes[i].width, "x")
               sy == DragSnapAxis(nodes, draggedNodeId, tentativeY, nodes[i].height, "y")
           IN  /\ OneGuideLine(activeSnapLines', "v", sx, nodes,
                               nodes'[i].y, nodes'[i].height, "y")
               /\ OneGuideLine(activeSnapLines', "h", sy, nodes,
                               nodes'[i].x, nodes'[i].width, "x")

\* the part of C33 about resize moves; the final extent is the geometry the
\* snap computation arrived at
ResizeMoveEmitsOneLinePerSnappedAxis ==
    \A p \in ResizeMovePoints :
        (/\ isResizingNode /\ FindNode(nodes, resizingNodeId) # 0
         /\ GestureBudget /\ handlePointerMove(TRUE, p[1], p[2]))
        => LET tentative == ResizeTentative(activeResizeHandle,
                                Div(Whole(p[1] - resizeStartMouseX), zoom),
                                Div(Whole(p[2] - resizeStartMouseY), zoom))
               ax == ResizeSnapAxis(nodes, resizingNodeId, tentative.x, tentative.width,
                                    activeResizeHandle, "l", "r", "x", MIN_NODE_WIDTH)
               ay == ResizeSnapAxis(nodes, resizingNodeId, tentative.y, tentative.height,
                                    activeResizeHandle, "t", "b", "y", MIN_NODE_HEIGHT)
           IN  /\ OneGuideLine(activeSnapLines', "v", ax, nodes, ay.pos, ay.size, "y")
               /\ OneGuideLine(activeSnapLines', "h", ay, nodes, ax.pos, ax.size, "x")

\* C33: every drag or resize move that snaps on an axis emits exactly one
\* guide line for that axis, located at the reference coordinate and
\* spanning, on the perpendicular axis, the union of the active node's final
\* extent and the extent of the node that supplied the reference on that
\* axis; no guide line is emitted for an axis that did not snap.
C33_OneGuideLinePerSnappedAxis ==
    [][DragMoveEmitsOneLinePerSnappedAxis /\ ResizeMoveEmitsOneLinePerSnappedAxis]_vars

\* the centre of the bounding box of the nodes after the step is shown at the
\* centre of the viewport after the step
ArrangedLayoutIsCentred ==
    LET c == LayoutCenter(LayoutBounds(nodes')) IN
    /\ Add(Mul(c.x, zoom'), panX') = ScreenCentre.x
    /\ Add(Mul(c.y, zoom'), panY') = ScreenCentre.y

\* C34: after arrange on a measured surface with at least one node the
\* centre of the bounding box of the arranged nodes maps to the centre of the
\* viewport and the zoom is what it was; arrange on an empty node store
\* changes neither the nodes, nor the connections, nor the viewport.
C34_ArrangeCentresTheLayout ==
    [][/\ \A pad \in ArrangePaddings :
            (containerElement /\ CallBudget /\ autoArrangeNodes(pad))
            => (ArrangedLayoutIsCentred /\ zoom' = zoom)
       /\ (CallBudget /\ autoArrangeNothing)
            => UNCHANGED <<nodes, connections, panX, panY, zoom>>]_vars

\* every connection of the store after the step that was not there before it
\* leaves a bottom handle and enters a top handle
NewConnectionsAreBottomToTop ==
    \A c \in 1..Len(connections') :
        (\A d \in 1..Len(connections) : connections[d] # connections'[c])
        => /\ connections'[c].from.handle = "bottom"
           /\ connections'[c].to.handle = "top"

\* a bottom-to-top connection from node a to node b is in the store
LinkedBottomToTop(a, b) ==
    \E c \in 1..Len(connections) :
        /\ connections[c].from = [nodeId |-> a, handle |-> "bottom"]
        /\ connections[c].to = [nodeId |-> b, handle |-> "top"]

\* C35: every connection created by the connect gesture or the connect
\* command has from.handle = bottom and to.handle = top, whichever connector
\* handles the gesture was pressed and released on; hence a second gesture
\* or command from the same source node to the same target node creates no
\* connection, whatever handles it uses.  Stated of the steps that change
\* the connection store: such a step of the command or of the gesture adds
\* bottom-to-top connections only, and only between nodes not linked yet.
C35_GestureAndCommandLinkBottomToTop ==
    [][connections' # connections
       => /\ \A a \in CommandIds, b \in CommandIds :
               (Budget /\ connectNodesCommand(a, b))
               => (NewConnectionsAreBottomToTop /\ ~LinkedBottomToTop(a, b))
          /\ draggingConnection # <<>>
               => \A t \in Targets :
                     (Budget /\ handlePointerUp(t, 0))
                     => /\ NewConnectionsAreBottomToTop
                        /\ ~LinkedBottomToTop(draggingConnection[1].startNodeId,
                                              t.nodeId)]_vars

\* two gestures from node 1 to node 2, four events in all, dispatched two
\* requests and left one connection, from bottom to top
C35_SecondGestureAddedNothing ==
    /\ Len(requests) = 2 /\ requests[1] = requests[2]
    /\ requests[1] = [from |-> 1, to |-> 2]
    /\ Len(connections) = 1 /\ LinkedBottomToTop(1, 2)

\* a drag or resize session is active on a node that is no longer in the
\* store: clearNodes, the only operation that removes nodes, ran during it
SessionOnClearedNode ==
    \/ isDraggingNode /\ draggedNodeId # NoNode /\ FindNode(nodes, draggedNodeId) = 0
    \/ isResizingNode /\ resizingNodeId # NoNode /\ FindNode(nodes, resizingNodeId) = 0

\* C36: when clear runs while a drag or resize session is active on a node,
\* the pointer moves and the release that follow never re-create that node
\* nor change any node, and the session still ends in Idle on release.
C36_ClearedSessionMovesNothingAndEnds ==
    [][SessionOnClearedNode
       => /\ PointerMove => nodes' = nodes
          /\ PointerUp => (nodes' = nodes /\ Idle')]_vars

\* C37: in every state reachable by pointer events and commands the selected
\* node id is either null or the id of a node present in the node store.
C37_SelectionNamesAStoredNode ==
    selectedNodeId = NoNode \/ FindNode(nodes, selectedNodeId) # 0

\* C38: a wheel event changes only zoom, pan and the guide-line list: node
\* geometry, the connection store, the selection and the active session (its
\* flag and its recorded start data) are after the event what they were
\* before it, in Idle and in every session state.
C38_WheelLeavesBoardAndSessionAlone ==
    [][Wheel => UNCHANGED <<nodes, connections, selectedNodeId, panVars, dragVars,
                            resizeVars, draggingConnection>>]_vars

\* a wheel event at (100, 100) during a panning session that was started by
\* a press at (100, 100) with pan (0, 0): the session is still active
C38_WheelDuringPanning ==
    /\ isPanning /\ startPanX = Whole(100) /\ startPanY = Whole(100)
    /\ zoom = Num(3, 2) /\ panX = Whole(-50) /\ panY = Whole(-50)

\* what one run of arrange with this padding can leave behind: the node list
\* and the pan
ArrangeResults(pad) ==
    {[nodes |-> out.nodes, pan |-> ArrangedPan(out.nodes)] :
        out \in ArrangeOutcomes(nodes, connections, ParsePadding(pad))}

\* C39: when the connection list is empty arrange is deterministic: two runs
\* from the same node list and with the same padding produce the same node
\* positions and the same pan.
C39_ArrangeWithoutConnectionsIsDeterministic ==
    (connections = <<>> /\ Len(nodes) > 0)
    => \A pad \in ArrangePaddings : Cardinality(ArrangeResults(pad)) = 1

\* the board after an arrange with the default padding, no connection made
C39_ArrangedUnconnectedBoard ==
    /\ connections = <<>> /\ nEvents = 1
    /\ \E i \in 1..Len(nodes) : nodes[i].x = Whole(60) /\ nodes[i].y = Whole(60)

\* C40: starting from a board whose nodes all have the same showId, in every
\* state reachable by add text, add image (whose node is inserted when the
\* image load completes or fails), toggle ids, arrange and clear, in any
\* interleaving, all nodes of the store have the same showId.
C40_AllNodesShareShowId ==
    \A i \in 1..Len(nodes), j \in 1..Len(nodes) : nodes[i].showId = nodes[j].showId

====
